---- MODULE Spec2Model ----
(***************************************************************************)
(* A model of venv-pack (src/venv_pack/core.py, src/venv_pack/formats.py). *)
(*                                                                         *)
(* SpecTools: the pure functions of core.py (_output_and_format,           *)
(*            check_prefix, check_no_editable_packages, rewrite_shebang)   *)
(*            applied to inputs drawn from bounded sets.                   *)
(* SpecContent: what pack() writes: the manifest load_environment builds   *)
(*            from a directory tree, the filters, Packer.add for each      *)
(*            entry and Packer.finish, with the archive members recorded.  *)
(* SpecEnv  : the Env filter pipeline (Env.exclude / Env.include) over an  *)
(*            explicit manifest, with Python list objects kept on a heap   *)
(*            so that aliasing between Env values is observable.           *)
(* SpecPack : the control flow of pack() and Env.pack(): discovery and     *)
(*            filter errors, output/format resolution, the staging temp    *)
(*            file, the archive writer, the add loop, finish, and the     *)
(*            final move to the output path.                               *)
(***************************************************************************)
EXTENDS Integers, Sequences, FiniteSets, TLC

VARIABLES
    \* ---- SpecEnv ----
    heap,       \* Python list objects: heap[id] is the content of list id
    envs,       \* Env objects: envs[k] = [_context, files, _excluded_files]
    made,       \* made[k]: the call that returned envs[k]
    \* ---- SpecPack ----
    call,       \* the arguments of the pack() call and the facts it reads
    pc,         \* position in pack() / Env.pack()
    active,     \* len(env.files) of the Env being packed
    excluded,   \* len(env._excluded_files) of the Env being packed
    idx,        \* loop position in "for f in files" / members added by finish
    arc,        \* archive writer: [open, count, offset]
    temp,       \* staging temp file: "none" | "empty" | "partial" | "complete"
    out,        \* output path: "absent" | "old" | "partial" | "complete"
    exc,        \* exception in flight or escaped: [type, msg]
    hist,       \* what has happened during the call (observations)
    \* ---- SpecTools ----
    tool,       \* a call of a pure function: [fn, arg, res]
    \* ---- SpecContent ----
    site,       \* the environment on disk and the arguments of pack()
    cenv,       \* the Env being packed: [context, files, excluded]
    packer,     \* the Packer: [python_prefix, rewrites]
    members,    \* what the archive was handed, in order
    step        \* position in pack() / Env.pack()

envVars == <<heap, envs, made>>
packVars == <<call, pc, active, excluded, idx, arc, temp, out, exc, hist>>
toolVars == <<tool>>
contentVars == <<site, cenv, packer, members, step>>
vars == <<heap, envs, made, call, pc, active, excluded, idx, arc, temp, out, exc, hist,
          tool, site, cenv, packer, members, step>>

(***************************************************************************)
(* Bounds of the model.                                                    *)
(***************************************************************************)
MaxFiles == 3      \* entries in a discovered manifest (SpecEnv)
MaxEnvs == 4       \* Env objects alive in one behaviour (SpecEnv)

(***************************************************************************)
(* Strings are sequences of one-character strings.                         *)
(***************************************************************************)
RECURSIVE closing(_, _)
\* fnmatch.translate: scan for the "]" that closes a bracket expression,
\* starting at position j of pat; Len(pat) + 1 when there is none.
closing(pat, j) ==
    IF j > Len(pat) THEN j
    ELSE IF pat[j] = "]" THEN j
    ELSE closing(pat, j + 1)

\* Position of the closing "]" of the bracket expression opened at pat[1],
\* after the optional leading "!" and a leading "]" taken literally.
bracket_end(pat) ==
    LET j1 == IF Len(pat) >= 2 /\ pat[2] = "!" THEN 3 ELSE 2
        j2 == IF j1 <= Len(pat) /\ pat[j1] = "]" THEN j1 + 1 ELSE j1
    IN  closing(pat, j2)

RECURSIVE fnmatch(_, _)
\* fnmatch.fnmatch(name, pat) on POSIX (normcase is the identity): "*"
\* matches any run of characters ("/" included), "?" one character,
\* "[seq]" / "[!seq]" one character in / not in seq, an unclosed "[" itself.
fnmatch(name, pat) ==
    IF pat = <<>> THEN name = <<>>
    ELSE IF pat[1] = "*" THEN
        \/ fnmatch(name, Tail(pat))
        \/ name # <<>> /\ fnmatch(Tail(name), pat)
    ELSE IF pat[1] = "?" THEN
        name # <<>> /\ fnmatch(Tail(name), Tail(pat))
    ELSE IF pat[1] = "[" /\ bracket_end(pat) <= Len(pat) THEN
        LET j == bracket_end(pat)
            neg == pat[2] = "!"
            stuff == {pat[k] : k \in (IF neg THEN 3 ELSE 2) .. (j - 1)}
        IN  /\ name # <<>>
            /\ (name[1] \in stuff) # neg
            /\ fnmatch(Tail(name), SubSeq(pat, j + 1, Len(pat)))
    ELSE
        name # <<>> /\ name[1] = pat[1] /\ fnmatch(Tail(name), Tail(pat))

(***************************************************************************)
(* str / bytes methods the code uses.                                      *)
(***************************************************************************)
\* s.startswith(p)
startswith(s, p) == Len(p) <= Len(s) /\ SubSeq(s, 1, Len(p)) = p

\* s.endswith(p)
endswith(s, p) == Len(p) <= Len(s) /\ SubSeq(s, Len(s) - Len(p) + 1, Len(s)) = p

RECURSIVE replace(_, _, _)
\* s.replace(old, new): every non-overlapping occurrence, left to right; an
\* empty old matches before every character and at the end.
replace(s, old, new) ==
    IF old = <<>> THEN
        IF s = <<>> THEN new ELSE new \o <<s[1]>> \o replace(Tail(s), old, new)
    ELSE IF s = <<>> THEN <<>>
    ELSE IF startswith(s, old) THEN new \o replace(SubSeq(s, Len(old) + 1, Len(s)), old, new)
    ELSE <<s[1]>> \o replace(Tail(s), old, new)

RECURSIVE count(_, _)
\* s.count(sub) for a non-empty sub: non-overlapping occurrences
count(s, sub) ==
    IF Len(s) < Len(sub) THEN 0
    ELSE IF startswith(s, sub) THEN 1 + count(SubSeq(s, Len(sub) + 1, Len(s)), sub)
    ELSE count(Tail(s), sub)

RECURSIVE split(_, _)
\* s.split(c) for a one-character separator c: the list of fields
split(s, c) ==
    IF \A k \in 1 .. Len(s) : s[k] # c THEN <<s>>
    ELSE LET k == CHOOSE i \in 1 .. Len(s) : s[i] = c /\ \A j \in 1 .. (i - 1) : s[j] # c
         IN  <<SubSeq(s, 1, k - 1)>> \o split(SubSeq(s, k + 1, Len(s)), c)

Whitespace == {" ", "\n", "\r", "\t"}

RECURSIVE rstrip(_)
\* s.rstrip()
rstrip(s) ==
    IF s # <<>> /\ s[Len(s)] \in Whitespace THEN rstrip(SubSeq(s, 1, Len(s) - 1)) ELSE s

RECURSIVE lstrip(_)
lstrip(s) == IF s # <<>> /\ s[1] \in Whitespace THEN lstrip(Tail(s)) ELSE s

\* s.strip()
strip(s) == lstrip(rstrip(s))

RECURSIVE rstrip_sep(_)
\* s.rstrip('/')
rstrip_sep(s) ==
    IF s # <<>> /\ s[Len(s)] = "/" THEN rstrip_sep(SubSeq(s, 1, Len(s) - 1)) ELSE s

(***************************************************************************)
(* posixpath functions the code uses (on_win is False).                    *)
(***************************************************************************)
\* os.path.isabs(p)
isabs(p) == startswith(p, <<"/">>)

\* os.path.join(a, b): b alone when b is absolute, else a and b with one "/"
\* between them unless a is empty or already ends with "/"
join(a, b) ==
    IF isabs(b) THEN b
    ELSE IF a = <<>> \/ endswith(a, <<"/">>) THEN a \o b
    ELSE a \o <<"/">> \o b

join3(a, b, c) == join(join(a, b), c)

\* index of the last "/" of p, 0 when there is none (p.rfind('/') + 1)
rfind_sep(p) ==
    IF \A k \in 1 .. Len(p) : p[k] # "/" THEN 0
    ELSE CHOOSE i \in 1 .. Len(p) : p[i] = "/" /\ \A j \in (i + 1) .. Len(p) : p[j] # "/"

\* os.path.basename(p)
basename(p) == SubSeq(p, rfind_sep(p) + 1, Len(p))

\* os.path.dirname(p): the head up to the last "/", without trailing
\* slashes unless it consists of slashes only
dirname(p) ==
    LET head == SubSeq(p, 1, rfind_sep(p))
    IN  IF head # <<>> /\ rstrip_sep(head) # <<>> THEN rstrip_sep(head) ELSE head

RECURSIVE join_comps(_)
\* '/'.join(comps)
join_comps(comps) ==
    IF comps = <<>> THEN <<>>
    ELSE IF Len(comps) = 1 THEN comps[1]
    ELSE comps[1] \o <<"/">> \o join_comps(Tail(comps))

RECURSIVE norm_comps(_, _, _)
\* os.path.normpath, the loop over the components: "" and "." are skipped,
\* ".." removes the component before it, is dropped at the root, and is kept
\* when nothing (or another "..") precedes it in a relative path.
norm_comps(comps, acc, rooted) ==
    IF comps = <<>> THEN acc
    ELSE LET c == comps[1]
             rest == Tail(comps)
         IN  IF c = <<>> \/ c = <<".">> THEN norm_comps(rest, acc, rooted)
             ELSE IF c # <<".", ".">> THEN norm_comps(rest, Append(acc, c), rooted)
             ELSE IF acc # <<>> /\ acc[Len(acc)] # <<".", ".">>
                  THEN norm_comps(rest, SubSeq(acc, 1, Len(acc) - 1), rooted)
             ELSE IF acc = <<>> /\ rooted THEN norm_comps(rest, acc, rooted)
             ELSE norm_comps(rest, Append(acc, c), rooted)

\* os.path.normpath(p): exactly two leading slashes are kept, any other
\* number becomes one; the empty result is "."
normpath(p) ==
    IF p = <<>> THEN <<".">>
    ELSE LET slashes == IF ~isabs(p) THEN <<>>
                        ELSE IF startswith(p, <<"/", "/">>) /\ ~startswith(p, <<"/", "/", "/">>)
                             THEN <<"/", "/">>
                             ELSE <<"/">>
             body == join_comps(norm_comps(split(p, "/"), <<>>, isabs(p)))
         IN  IF slashes \o body = <<>> THEN <<".">> ELSE slashes \o body

\* os.getcwd() of the process
cwd == <<"/">>

\* os.path.abspath(p)
abspath(p) == IF isabs(p) THEN normpath(p) ELSE normpath(join(cwd, p))

\* the non-empty components of a path
comps_of(p) == SelectSeq(split(p, "/"), LAMBDA c : c # <<>>)

RECURSIVE common_len(_, _)
\* len(os.path.commonprefix([start_list, path_list]))
common_len(a, b) ==
    IF a # <<>> /\ b # <<>> /\ a[1] = b[1] THEN 1 + common_len(Tail(a), Tail(b)) ELSE 0

\* os.path.relpath(path, start)
relpath(path, start) ==
    LET sl == comps_of(abspath(start))
        pl == comps_of(abspath(path))
        i == common_len(sl, pl)
        rel == [k \in 1 .. (Len(sl) - i) |-> <<".", ".">>] \o SubSeq(pl, i + 1, Len(pl))
    IN  IF rel = <<>> THEN <<".">> ELSE join_comps(rel)

(***************************************************************************)
(* The manifest.                                                           *)
(***************************************************************************)
prefix == <<"/", "e">>

\* File(source, target) namedtuple
File(p) == [source |-> join(prefix, p), target |-> p]

\* The targets a discovered environment may hold, in enumeration order.
AllTargets ==
    << <<"a", ".", "c">>,
       <<"b", ".", "c">>,
       <<"d", "/", "a", ".", "p">>,
       <<"d", "/", "b", ".", "c">> >>

Patterns ==
    { <<"*", ".", "c">>,
      <<"d", "/", "*">>,
      <<"[", "!", "a", "]", "*">> }

RECURSIVE pick(_, _)
\* The subsequence of AllTargets at the positions in S, as File records.
pick(S, k) ==
    IF k > Len(AllTargets) THEN <<>>
    ELSE (IF k \in S THEN <<File(AllTargets[k])>> ELSE <<>>) \o pick(S, k + 1)

\* The manifests load_environment may return: one File per distinct target.
Manifests ==
    {pick(S, 1) : S \in {T \in SUBSET (1 .. Len(AllTargets)) : Cardinality(T) <= MaxFiles}}

Range(s) == {s[k] : k \in 1 .. Len(s)}

(***************************************************************************)
(* Env.__init__, Env._copy_with_files, Env.exclude, Env.include            *)
(***************************************************************************)
\* Env.__init__: files is the list load_environment built, _excluded_files
\* a new empty list.
Env__init__(files) ==
    /\ heap = <<files, <<>> >>
    /\ envs = << [_context |-> prefix, files |-> 1, _excluded_files |-> 2] >>
    /\ made = << [op |-> "init", recv |-> 0, pattern |-> <<>>] >>

\* object.__new__(Env) with the receiver's context and the given lists
_copy_with_files(self, files, excluded_files) ==
    Append(envs, [_context |-> self._context,
                  files |-> files,
                  _excluded_files |-> excluded_files])

exclude_nocopy(e, pattern) ==
    LET self == envs[e]
        fs == heap[self.files]
        moved == SelectSeq(fs, LAMBDA f : fnmatch(f.target, pattern))
        kept == SelectSeq(fs, LAMBDA f : ~fnmatch(f.target, pattern))
    IN  /\ Len(envs) < MaxEnvs
        /\ heap' = [heap EXCEPT ![self._excluded_files] = @ \o moved] \o <<kept>>
        /\ envs' = _copy_with_files(self, Len(heap) + 1, self._excluded_files)
        /\ made' = Append(made, [op |-> "exclude", recv |-> e, pattern |-> pattern])

exclude_inverted(e, pattern) ==
    LET self == envs[e]
        fs == heap[self.files]
        moved == SelectSeq(fs, LAMBDA f : ~fnmatch(f.target, pattern))
        kept == SelectSeq(fs, LAMBDA f : fnmatch(f.target, pattern))
    IN  /\ Len(envs) < MaxEnvs
        /\ heap' = heap \o <<kept, heap[self._excluded_files] \o moved>>
        /\ envs' = _copy_with_files(self, Len(heap) + 1, Len(heap) + 2)
        /\ made' = Append(made, [op |-> "exclude", recv |-> e, pattern |-> pattern])

\* Env.exclude(pattern): files = []; excluded = list(self._excluded_files);
\* every f of self.files is appended to excluded if it matches, else to files.
exclude(e, pattern) ==
    LET self == envs[e]
        fs == heap[self.files]
        moved == SelectSeq(fs, LAMBDA f : fnmatch(f.target, pattern))
        kept == SelectSeq(fs, LAMBDA f : ~fnmatch(f.target, pattern))
    IN  /\ Len(envs) < MaxEnvs
        /\ heap' = heap \o <<kept, heap[self._excluded_files] \o moved>>
        /\ envs' = _copy_with_files(self, Len(heap) + 1, Len(heap) + 2)
        /\ made' = Append(made, [op |-> "exclude", recv |-> e, pattern |-> pattern])

include_drop(e, pattern) ==
    LET self == envs[e]
        ex == heap[self._excluded_files]
        moved == SelectSeq(ex, LAMBDA f : fnmatch(f.target, pattern))
    IN  /\ Len(envs) < MaxEnvs
        /\ heap' = heap \o <<heap[self.files] \o moved, <<>> >>
        /\ envs' = _copy_with_files(self, Len(heap) + 1, Len(heap) + 2)
        /\ made' = Append(made, [op |-> "include", recv |-> e, pattern |-> pattern])

include_all(e, pattern) ==
    LET self == envs[e]
        ex == heap[self._excluded_files]
    IN  /\ Len(envs) < MaxEnvs
        /\ heap' = heap \o <<heap[self.files] \o ex, <<>> >>
        /\ envs' = _copy_with_files(self, Len(heap) + 1, Len(heap) + 2)
        /\ made' = Append(made, [op |-> "include", recv |-> e, pattern |-> pattern])

\* Env.include(pattern): files = list(self.files); excluded = []; every f of
\* self._excluded_files is appended to files if it matches, else to excluded.
include(e, pattern) ==
    LET self == envs[e]
        ex == heap[self._excluded_files]
        moved == SelectSeq(ex, LAMBDA f : fnmatch(f.target, pattern))
        kept == SelectSeq(ex, LAMBDA f : ~fnmatch(f.target, pattern))
    IN  /\ Len(envs) < MaxEnvs
        /\ heap' = heap \o <<heap[self.files] \o moved, kept>>
        /\ envs' = _copy_with_files(self, Len(heap) + 1, Len(heap) + 2)
        /\ made' = Append(made, [op |-> "include", recv |-> e, pattern |-> pattern])

Exclude ==
    /\ \E e \in 1 .. Len(envs), p \in Patterns : exclude(e, p)
    /\ UNCHANGED <<packVars, toolVars, contentVars>>

Include ==
    /\ \E e \in 1 .. Len(envs), p \in Patterns : include(e, p)
    /\ UNCHANGED <<packVars, toolVars, contentVars>>

\* The variables of SpecTools and SpecContent while neither is modelled.
ToolIdle == tool = [fn |-> "none"]

ContentIdle ==
    /\ site = [kind |-> "none"]
    /\ cenv = [kind |-> "none"]
    /\ packer = [kind |-> "none"]
    /\ members = <<>>
    /\ step = "idle"

\* The pack() variables while no pack() call is being modelled.
PackIdle ==
    /\ call = [kind |-> "none"]
    /\ pc = "idle"
    /\ active = 0
    /\ excluded = 0
    /\ idx = 0
    /\ arc = [kind |-> "none", open |-> FALSE, count |-> 0, offset |-> 0, past |-> FALSE]
    /\ temp = "none"
    /\ out = "absent"
    /\ exc = [type |-> "none", msg |-> ""]
    /\ hist = {}

\* Env(prefix): load_environment returned one of the manifests.
InitEnv == (\E m \in Manifests : Env__init__(m)) /\ PackIdle /\ ToolIdle /\ ContentIdle

NextEnv == Exclude \/ Include

SpecEnv == InitEnv /\ [][NextEnv]_vars

(***************************************************************************)
(* Claims on the filter pipeline (checked under SpecEnv).                  *)
(***************************************************************************)
Files(k) == heap[envs[k].files]
Excl(k) == heap[envs[k]._excluded_files]
ListIds(k) == {envs[k].files, envs[k]._excluded_files}
Matching(s, p) == {f \in Range(s) : fnmatch(f.target, p)}

\* No list object is used twice: an Env's two lists are different objects
\* and no list of one Env is a list of another.
NoSharedLists ==
    \A i, j \in 1 .. Len(envs) :
        /\ envs[i].files # envs[i]._excluded_files
        /\ i # j => ListIds(i) \cap ListIds(j) = {}

\* A call leaves every existing Env object and every existing list as it
\* was, and returns one new Env object.
ReceiverUnchanged ==
    /\ Len(envs') = Len(envs) + 1
    /\ \A k \in 1 .. Len(envs) : envs'[k] = envs[k]
    /\ \A id \in 1 .. Len(heap) : heap'[id] = heap[id]
    /\ made'[Len(envs')].recv \in 1 .. Len(envs)

\* C1: exclude and include return a new Env distinct from the receiver,
\* leave the receiver's files and _excluded_files unchanged, and give the
\* returned Env lists that are not the receiver's list objects.
C1_PureFilters == [] NoSharedLists /\ [][ReceiverUnchanged]_envVars

\* An exclude and an include that each moved an entry have returned.
C1_Witness ==
    \E i, j \in 2 .. Len(envs) :
        /\ made[i].op = "exclude" /\ Len(Files(i)) < Len(Files(made[i].recv))
        /\ made[j].op = "include" /\ Len(Files(j)) > Len(Files(made[j].recv))
        /\ Excl(made[i].recv) # <<>>

\* The manifest load_environment returned to Env.__init__.
Manifest == heap[1]

\* envs[m] is envs[j].exclude(A).include(B)
ExcludeThenInclude(j, m) ==
    /\ m \in 2 .. Len(envs)
    /\ made[m].op = "include"
    /\ made[made[m].recv].op = "exclude"
    /\ made[made[m].recv].recv = j

PatA(m) == made[made[m].recv].pattern
PatB(m) == made[m].pattern

\* C2: after any sequence of exclude/include calls on a freshly discovered
\* Env the active and the excluded list are disjoint and together hold
\* exactly the entries of the discovered manifest, each once.
C2_Partition ==
    \A k \in 1 .. Len(envs) :
        /\ Range(Files(k)) \cap Range(Excl(k)) = {}
        /\ Range(Files(k)) \cup Range(Excl(k)) = Range(Manifest)
        /\ Len(Files(k)) + Len(Excl(k)) = Len(Manifest)

\* An Env two calls away from discovery holds entries in both lists.
C2_Witness ==
    \E k \in 3 .. Len(envs) :
        /\ made[k].recv >= 2
        /\ Files(k) # <<>>
        /\ Excl(k) # <<>>
        /\ Len(Manifest) = MaxFiles

\* C3 as stated: for any Env value env, also one that already has excluded
\* entries, and any pattern P, env.exclude(P).include(P) has the active set
\* of env.
C3_RoundTripAnyEnv ==
    \A j, m \in 1 .. Len(envs) :
        ExcludeThenInclude(j, m) /\ PatA(m) = PatB(m)
            => Range(Files(m)) = Range(Files(j))

\* C3 as amended: env.exclude(P).include(P) has the active set of env plus
\* the excluded entries of env that match P; it has exactly the active set
\* of env when no excluded entry of env matches P (so for every freshly
\* discovered Env).
C3_RoundTrip ==
    \A j, m \in 1 .. Len(envs) :
        ExcludeThenInclude(j, m) /\ PatA(m) = PatB(m)
            => /\ Range(Files(m)) = Range(Files(j)) \cup Matching(Excl(j), PatB(m))
               /\ Matching(Excl(j), PatB(m)) = {} => Range(Files(m)) = Range(Files(j))

\* A round trip on an Env that has excluded entries, none matching P, in
\* which exclude(P) moved an entry.
C3_Witness ==
    \E j, m \in 1 .. Len(envs) :
        /\ ExcludeThenInclude(j, m)
        /\ PatA(m) = PatB(m)
        /\ Excl(j) # <<>>
        /\ Matching(Excl(j), PatB(m)) = {}
        /\ Matching(Files(j), PatA(m)) # {}

\* C4: exclude(P) moves exactly the active entries matching P to the
\* excluded set, include(P) exactly the excluded entries matching P to the
\* active set, every other entry stays; so after exclude(A) then include(B)
\* a previously active entry matching A and B is active and one matching A
\* but not B is excluded.
C4_MovesExactlyMatching ==
    /\ \A k \in 2 .. Len(envs) :
        LET r == made[k].recv
            p == made[k].pattern
        IN  /\ made[k].op = "exclude" =>
                /\ Range(Files(k)) = Range(Files(r)) \ Matching(Files(r), p)
                /\ Range(Excl(k)) = Range(Excl(r)) \cup Matching(Files(r), p)
            /\ made[k].op = "include" =>
                /\ Range(Files(k)) = Range(Files(r)) \cup Matching(Excl(r), p)
                /\ Range(Excl(k)) = Range(Excl(r)) \ Matching(Excl(r), p)
    /\ \A j, m \in 1 .. Len(envs) :
        ExcludeThenInclude(j, m) =>
            \A f \in Range(Files(j)) :
                fnmatch(f.target, PatA(m)) =>
                    IF fnmatch(f.target, PatB(m))
                    THEN f \in Range(Files(m)) /\ f \notin Range(Excl(m))
                    ELSE f \in Range(Excl(m)) /\ f \notin Range(Files(m))

\* exclude(A) then include(B) with an entry matching both and an entry
\* matching A only.
C4_Witness ==
    \E j, m \in 1 .. Len(envs) :
        /\ ExcludeThenInclude(j, m)
        /\ \E f, g \in Range(Files(j)) :
            /\ fnmatch(f.target, PatA(m)) /\ fnmatch(f.target, PatB(m))
            /\ fnmatch(g.target, PatA(m)) /\ ~fnmatch(g.target, PatB(m))
            /\ f \in Range(Files(m))
            /\ g \in Range(Excl(m))

(***************************************************************************)
(* pack() and Env.pack(): discovery, filters, output and format, the       *)
(* staging temp file, the archive writer, the add loop, finish, the move.  *)
(*                                                                         *)
(* The Env being packed holds `active` + `excluded` entries that are all   *)
(* regular files of the same stored length (test_zip64 builds its Env from *)
(* one source file); a filter pattern matches all of them or none.         *)
(***************************************************************************)
ScriptCount == 1    \* files in scripts/common that finish adds
MaxFilters == 2     \* length of the filters argument

\* zipfile.ZIP_FILECOUNT_LIMIT and zipfile.ZIP64_LIMIT
ZIP_FILECOUNT_LIMIT == (2 ^ 16) - 1
ZIP64_LIMIT == 2147483647

\* Stored lengths of an entry: a small file, a file of 1 GiB, and the length
\* at which ZIP_FILECOUNT_LIMIT entries end just past ZIP64_LIMIT while the
\* last of them still starts below it.
Sizes == {1, 32769, 2 ^ 30}
LargeSizes == {1, 32769}
SmallCounts == 0 .. MaxFiles
LargeCounts == {ZIP_FILECOUNT_LIMIT, ZIP_FILECOUNT_LIMIT + 1}

NoExc == [type |-> "none", msg |-> ""]
VenvPackException(m) == [type |-> "VenvPackException", msg |-> m]
LargeZipFile == [type |-> "LargeZipFile", msg |-> "would require ZIP64 extensions"]
OSError == [type |-> "OSError", msg |-> "I/O error"]
ValueError == [type |-> "ValueError", msg |-> "unpack"]
Ok(v) == [raised |-> FALSE, value |-> v, exc |-> NoExc]
Raise(e) == [raised |-> TRUE, value |-> "", exc |-> e]

MsgNotVenv == "Current environment is not a virtual environment"
MsgNoPath == "Environment path doesn't exist"
MsgInvalid == "is not a valid virtual environment"
MsgPythons == "Unexpected failure, python versions found in prefix"
MsgEditable == "Cannot pack an environment with editable packages"
MsgFilter == "Unknown filter of kind"
MsgExtension == "Unknown file extension"
MsgFormat == "Unknown format"
MsgExists == "File already exists"
MsgAbsolute == "python-prefix must be an absolute path"
MsgZip64 == "Large Zip File: ZIP64 extensions required but were disabled"

\* An optional string (None or a str) and an optional file (absent or its text)
None == [some |-> FALSE, s |-> <<>>]
Some(str) == [some |-> TRUE, s |-> str]

\* "for line in fil": the lines of a text, each with its line end
lines_of(text) ==
    LET fs == split(text, "\n")
        n == Len(fs)
    IN  [k \in 1 .. (IF fs[n] = <<>> THEN n - 1 ELSE n) |->
            IF k < n THEN fs[k] \o <<"\n">> ELSE fs[k]]

\* str.lower() on the letters that occur in a key of pyvenv.cfg
lower(str) ==
    [k \in 1 .. Len(str) |->
        CASE str[k] = "H" -> "h" [] str[k] = "O" -> "o" [] str[k] = "M" -> "m"
          [] str[k] = "E" -> "e" [] OTHER -> str[k]]

\* Characters in the order of their code points (sorted() compares by them)
CodePoints ==
    <<"\t", "\n", "\r", " ", "!", "#", "*", "-", ".", "/",
      "0", "1", "2", "3", "4", "5", "6", "7", "8", "9", "=",
      "A", "B", "C", "D", "E", "F", "G", "H", "I", "J", "K", "L", "M",
      "N", "O", "P", "Q", "R", "S", "T", "U", "V", "W", "X", "Y", "Z",
      "[", "\\", "]", "_",
      "a", "b", "c", "d", "e", "f", "g", "h", "i", "j", "k", "l", "m",
      "n", "o", "p", "q", "r", "s", "t", "u", "v", "w", "x", "y", "z", "~">>

ord(c) == CHOOSE k \in 1 .. Len(CodePoints) : CodePoints[k] = c

RECURSIVE str_lt(_, _)
\* a < b for two str
str_lt(a, b) ==
    IF b = <<>> THEN FALSE
    ELSE IF a = <<>> THEN TRUE
    ELSE IF a[1] # b[1] THEN ord(a[1]) < ord(b[1])
    ELSE str_lt(Tail(a), Tail(b))

RECURSIVE sorted(_)
\* sorted(S) for a set of str
sorted(S) ==
    IF S = {} THEN <<>>
    ELSE LET m == CHOOSE x \in S : \A y \in S \ {x} : str_lt(x, y)
         IN  <<m>> \o sorted(S \ {m})

BIN_DIR == <<"b", "i", "n">>
s_lib == <<"l", "i", "b">>
s_include == <<"i", "n", "c", "l", "u", "d", "e">>
s_python == <<"p", "y", "t", "h", "o", "n">>
s_site_packages == <<"s", "i", "t", "e", "-", "p", "a", "c", "k", "a", "g", "e", "s">>
s_pyvenv_cfg == <<"p", "y", "v", "e", "n", "v", ".", "c", "f", "g">>
s_orig_prefix_txt == <<"o", "r", "i", "g", "-", "p", "r", "e", "f", "i", "x", ".", "t", "x", "t">>
s_home == <<"h", "o", "m", "e">>

\* The name of the directory glob('<prefix>/lib/python*') finds
python_ver == s_python \o <<"3", ".", "7">>

\* The path given to Env / check_prefix (or the value of VIRTUAL_ENV): the
\* environment directory /e, written in three ways.
GivenPaths == {<<"/", "e">>, <<"e">>, <<"/", "e", "/">>}

\* pyvenv.cfg as venv writes it, with the interpreter in /u/bin or in /bin;
\* with an upper-case key; without a home key; with a comment line before the
\* home line.
CfgTexts ==
    { <<"h", "o", "m", "e", " ", "=", " ", "/", "u", "/", "b", "i", "n", "\n">>,
      <<"h", "o", "m", "e", " ", "=", " ", "/", "b", "i", "n", "\n">>,
      <<"H", "O", "M", "E", "=", "/", "u", "/", "b", "i", "n", "\n">>,
      <<"v", "e", "r", "s", "i", "o", "n", " ", "=", " ", "3", ".", "7", "\n">>,
      <<"#", " ", "c", "\n", "h", "o", "m", "e", " ", "=", " ", "/", "u", "/", "b", "i", "n", "\n">> }

\* <py_lib>/orig-prefix.txt as virtualenv writes it
OrigPrefixTexts == { <<"/", "u", "\n">> }

\* A *.pth file of site-packages: a package inside the environment, one in
\* the sibling directory /e2, packages elsewhere (twice the same line, not in
\* sorted order), a comment, a relative line leading out of the environment.
PthTexts ==
    { <<"/", "e", "/", "s", "r", "c", "\n">>,
      <<"/", "e", "2", "/", "s", "r", "c", "\n">>,
      <<"/", "x", "\n", "/", "x", "\n", "/", "a", "\n">>,
      <<"#", " ", "/", "x", "\n", "\n">>,
      <<".", ".", "/", ".", ".", "/", ".", ".", "/", ".", ".", "/", "x", "\n">> }

Optional(S) == {None} \cup {Some(t) : t \in S}

\* What discovery reads: whether a prefix is given (or VIRTUAL_ENV is set) and
\* how it is written, whether the path exists, pyvenv.cfg, the number of
\* lib/python* directories, <py_lib>/orig-prefix.txt, a *.pth file of
\* site-packages, and which further entries the directory holds (opt, a set
\* of positions of OptionalNodes; none here).
EnvFacts ==
    [given : BOOLEAN, path : GivenPaths, exists : BOOLEAN,
     cfg : Optional(CfgTexts), pythons : 0 .. 2,
     origtxt : Optional(OrigPrefixTexts), pth : Optional(PthTexts), opt : {{}}]

\* find_python_lib_include(prefix): (python_lib, python_include)
find_python_lib_include(f) ==
    IF f.pythons > 1 THEN Raise(VenvPackException(MsgPythons))
    ELSE IF f.pythons = 0 THEN Raise(VenvPackException(MsgPythons))
    ELSE Ok(<<join(s_lib, python_ver), join(s_include, python_ver)>>)

AttrDict(kind, pfx, orig_prefix, libinc) ==
    [kind |-> kind, prefix |-> pfx, orig_prefix |-> orig_prefix,
     py_lib |-> libinc[1], py_include |-> libinc[2]]

RECURSIVE find_home(_)
\* check_venv, the loop over the lines of pyvenv.cfg: key, val =
\* line.split('=') raises ValueError unless the line has exactly one "=";
\* the first line whose key is "home" gives orig_prefix; the else clause of
\* the loop raises VenvPackException.
find_home(lines) ==
    IF lines = <<>> THEN Raise(VenvPackException(MsgInvalid))
    ELSE LET kv == split(lines[1], "=")
         IN  IF Len(kv) # 2 THEN Raise(ValueError)
             ELSE IF lower(strip(kv[1])) = s_home THEN Ok(dirname(strip(kv[2])))
             ELSE find_home(Tail(lines))

\* check_venv, after the loop: find_python_lib_include and the context
venv_context(pfx, home, libinc) ==
    IF home.raised THEN home
    ELSE IF libinc.raised THEN libinc
    ELSE Ok(AttrDict("venv", pfx, home.value, libinc.value))

check_venv(f, pfx) ==
    IF ~f.cfg.some THEN Raise(VenvPackException(MsgInvalid))
    ELSE venv_context(pfx, find_home(lines_of(f.cfg.s)), find_python_lib_include(f))

check_virtualenv(f, pfx) ==
    IF find_python_lib_include(f).raised THEN find_python_lib_include(f)
    ELSE IF ~f.origtxt.some THEN Raise(VenvPackException(MsgInvalid))
    ELSE Ok(AttrDict("virtualenv", pfx, strip(f.origtxt.s),
                     find_python_lib_include(f).value))

\* check_prefix: prefix = os.path.abspath(prefix), then
\* "try: return check(prefix) / except VenvPackException: pass" over
\* [check_venv, check_virtualenv]
\* check_prefix: the loop over the two checks, given what each does
try_checks(venv, virtualenv) ==
    IF ~venv.raised THEN venv
    ELSE IF venv.exc.type # "VenvPackException" THEN venv
    ELSE IF ~virtualenv.raised THEN virtualenv
    ELSE Raise(VenvPackException(MsgInvalid))

check_prefix(f) ==
    IF ~f.given THEN Raise(VenvPackException(MsgNotVenv))
    ELSE IF ~f.exists THEN Raise(VenvPackException(MsgNoPath))
    ELSE try_checks(check_venv(f, abspath(f.path)), check_virtualenv(f, abspath(f.path)))

\* check_no_editable_packages, the lines added to editable_packages: a line
\* that is not a comment and not empty after rstrip() whose location
\* normpath(join(dirname, line)) does not start with context.prefix
editable_packages(f, context) ==
    IF ~f.pth.some THEN {}
    ELSE LET dir == join3(context.prefix, context.py_lib, s_site_packages)
             ls == lines_of(f.pth.s)
         IN  {rstrip(ls[k]) : k \in {i \in 1 .. Len(ls) :
                  /\ ~startswith(ls[i], <<"#">>)
                  /\ rstrip(ls[i]) # <<>>
                  /\ ~startswith(normpath(join(dir, rstrip(ls[i]))), context.prefix)}}

\* check_no_editable_packages(context); the value of a raise is the list the
\* message enumerates
\* check_no_editable_packages: "if editable_packages: raise"
raise_if_editable(found) ==
    IF found # {}
    THEN [raised |-> TRUE, value |-> sorted(found), exc |-> VenvPackException(MsgEditable)]
    ELSE Ok(<<>>)

check_no_editable_packages(f, context) == raise_if_editable(editable_packages(f, context))

(***************************************************************************)
(* The directory tree of the environment and the walk of load_environment. *)
(***************************************************************************)
\* A directory entry: its path below the prefix, its type ("file", "dir",
\* "link" for a symlink to a file, "dirlink" for a symlink to a directory),
\* the link target of a symlink, the content of a file.
Node(path, type, link, data) == [path |-> path, type |-> type, link |-> link, data |-> data]

s_activate == <<"a", "c", "t", "i", "v", "a", "t", "e">>
s_x == <<"x">>

\* The interpreter and library directory of the installation the environment
\* was made from, as the environment's links point to them; "/u" where
\* neither origin file names it.
\* The original installation, given what check_venv reads from pyvenv.cfg
origin_from(f, home) ==
    IF ~home.raised THEN home.value
    ELSE IF f.origtxt.some THEN strip(f.origtxt.s)
    ELSE <<"/", "u">>

origin_of(f) ==
    origin_from(f, IF f.cfg.some THEN find_home(lines_of(f.cfg.s))
                   ELSE Raise(VenvPackException(MsgInvalid)))

\* Entries an environment may hold besides the ones discovery reads, in the
\* order os.listdir returns them.
optional_nodes(origin) ==
    << Node(join(BIN_DIR, s_activate), "file", <<>>, s_x),
       Node(join(BIN_DIR, <<"p", "i", "p">>), "file", <<>>, <<"#", "!", "/", "e", "/", "b", "i", "n", "/", "p", "y", "t", "h", "o", "n", "\n", "x", "\n">>),
       Node(join(BIN_DIR, s_python), "link", join3(origin, BIN_DIR, s_python), <<>>),
       Node(join(BIN_DIR, s_python \o <<"3">>), "link",
            join3(origin, BIN_DIR, s_python \o <<"3">>), <<>>),
       Node(join(BIN_DIR, python_ver), "link", s_python, <<>>),
       Node(join3(s_lib, python_ver, <<"o", "s", ".", "p", "y">>), "link",
            join(join3(origin, s_lib, python_ver), <<"o", "s", ".", "p", "y">>), <<>>),
       Node(join(s_include, python_ver \o <<"m">>), "dirlink",
            join3(origin, s_include, python_ver \o <<"m">>), <<>>),
       Node(<<"l", "i", "b", "6", "4">>, "dirlink", s_lib, <<>>),
       Node(<<"a", ".", "p", "y", "~">>, "file", <<>>, s_x),
       Node(join3(s_lib, python_ver, join(s_site_packages, <<".", "D", "S", "_", "S", "T", "O", "R", "E">>)), "file", <<>>, s_x),
       Node(<<"b", "i", "n", ".", "p", "y">>, "file", <<>>, <<"#", "!", "/", "e", "/", "b", "i", "n", "/", "p", "y", "t", "h", "o", "n", "\n", "x", "\n">>) >>

\* The optional entries of the environment f
OptionalNodes(f) == optional_nodes(origin_of(f))

\* The entries of the environment directory, in os.listdir order: the files
\* discovery reads, the directories they are in, and the optional entries.
tree_with(f, optional) ==
    (IF f.cfg.some THEN <<Node(s_pyvenv_cfg, "file", <<>>, f.cfg.s)>> ELSE <<>>)
    \o <<Node(BIN_DIR, "dir", <<>>, <<>>)>>
    \o (IF f.pythons >= 1
        THEN <<Node(s_lib, "dir", <<>>, <<>>),
               Node(join(s_lib, python_ver), "dir", <<>>, <<>>),
               Node(join3(s_lib, python_ver, s_site_packages), "dir", <<>>, <<>>)>>
        ELSE <<>>)
    \o (IF f.pythons >= 1 /\ f.origtxt.some
        THEN <<Node(join3(s_lib, python_ver, s_orig_prefix_txt), "file", <<>>, f.origtxt.s)>>
        ELSE <<>>)
    \o (IF f.pythons >= 1 /\ f.pth.some
        THEN <<Node(join3(s_lib, python_ver, join(s_site_packages, <<"x", ".", "p", "t", "h">>)), "file", <<>>, f.pth.s)>>
        ELSE <<>>)
    \o (IF \E k \in f.opt : dirname(optional[k].path) = s_include
        THEN <<Node(s_include, "dir", <<>>, <<>>)>>
        ELSE <<>>)
    \o SelectSeq([k \in 1 .. Len(optional) |->
                      IF k \in f.opt THEN optional[k] ELSE Node(<<>>, "none", <<>>, <<>>)],
                 LAMBDA n : n.type # "none")

\* The directory tree of the environment f
tree_of(f) == tree_with(f, OptionalNodes(f))

\* os.listdir(dir) for a directory given by its path below the prefix ("" is
\* the prefix itself)
listdir(tree, dir) == SelectSeq(tree, LAMBDA n : dirname(n.path) = dir)

RECURSIVE walk(_, _, _)
RECURSIVE walk_dirs(_, _, _)
\* The body of "for root, dirs, files in os.walk(full_path)" for one root and,
\* after it, the roots below it: an empty directory is added itself;
\* otherwise its files (symlinks to files are among them) and its
\* subdirectories that are symlinks are added, and the walk goes on in the
\* subdirectories that are not symlinks.
walk(tree, pfx, root) ==
    LET here == listdir(tree, root)
        dirs == SelectSeq(here, LAMBDA n : n.type \in {"dir", "dirlink"})
        files == SelectSeq(here, LAMBDA n : n.type \in {"file", "link"})
        root2 == relpath(join(pfx, root), pfx)
    IN  IF dirs = <<>> /\ files = <<>> THEN <<root2>>
        ELSE [k \in 1 .. Len(files) |-> join(root2, basename(files[k].path))]
             \o [k \in 1 .. Len(SelectSeq(dirs, LAMBDA n : n.type = "dirlink")) |->
                    join(root2, basename(SelectSeq(dirs, LAMBDA n : n.type = "dirlink")[k].path))]
             \o walk_dirs(tree, pfx, SelectSeq(dirs, LAMBDA n : n.type = "dir"))

walk_dirs(tree, pfx, dirs) ==
    IF dirs = <<>> THEN <<>>
    ELSE walk(tree, pfx, dirs[1].path) \o walk_dirs(tree, pfx, Tail(dirs))

RECURSIVE walk_top(_, _, _)
\* "for fn in os.listdir(prefix)": a file or a symlink is added by its name,
\* a directory is walked
walk_top(tree, pfx, top) ==
    IF top = <<>> THEN <<>>
    ELSE (IF top[1].type \in {"file", "link", "dirlink"}
          THEN <<top[1].path>>
          ELSE walk(tree, pfx, top[1].path))
         \o walk_top(tree, pfx, Tail(top))

\* load_environment, "# Files to ignore": the three activate scripts by
\* their path below the prefix, and the origin file by its path joined to
\* context.prefix
remove_set(context) ==
    { join(BIN_DIR, s_activate),
      join(BIN_DIR, s_activate \o <<".", "c", "s", "h">>),
      join(BIN_DIR, s_activate \o <<".", "f", "i", "s", "h">>),
      IF context.kind = "virtualenv"
      THEN join3(context.prefix, context.py_lib, s_orig_prefix_txt)
      ELSE join(context.prefix, s_pyvenv_cfg) }

\* load_environment, the list comprehension that builds files
\* load_environment: File(os.path.join(prefix, p), p) for the kept paths
files_of(pfx, kept) ==
    [k \in 1 .. Len(kept) |-> [source |-> join(pfx, kept[k]), target |-> kept[k]]]

\* load_environment: the condition of the list comprehension
kept_of(res, remove) ==
    SelectSeq(res, LAMBDA q :
        ~(q \in remove \/ endswith(q, <<"~">>) \/ endswith(q, <<".", "D", "S", "_", "S", "T", "O", "R", "E">>)))

\* load_environment: res after the loop over os.listdir(prefix)
walked(tree, pfx) == walk_top(tree, pfx, listdir(tree, <<>>))

manifest_of(f, context) ==
    files_of(context.prefix, kept_of(walked(tree_of(f), context.prefix), remove_set(context)))

\* load_environment(prefix): (context, files) or the exception of
\* check_prefix or check_no_editable_packages
\* load_environment, after check_no_editable_packages(context)
load_checked(f, context, checked) ==
    IF checked.raised THEN checked
    ELSE Ok([context |-> context, files |-> manifest_of(f, context)])

\* load_environment, after context = check_prefix(prefix)
load_context(f, c) ==
    IF c.raised THEN c
    ELSE load_checked(f, c.value, check_no_editable_packages(f, c.value))

load_environment(f) == load_context(f, check_prefix(f))

\* The filters argument: None (the empty list here) or (kind, pattern) pairs;
\* a pattern matches every entry ("*") or none ("-").
FilterKinds == {"exclude", "include", "foo"}
FilterPatterns == {"*", "-"}
Filter == [kind : FilterKinds, pattern : FilterPatterns]
FilterLists == UNION {[1 .. n -> Filter] : n \in 0 .. MaxFilters}

RECURSIVE apply_filters(_, _, _, _)
\* pack(): "for kind, pattern in filters"; the result is the Env's
\* (len(files), len(_excluded_files)) or the exception of an unknown kind.
apply_filters(fl, k, act, exl) ==
    IF k > Len(fl) THEN Ok(<<act, exl>>)
    ELSE IF fl[k].kind = "exclude" THEN
        IF fl[k].pattern = "*" THEN apply_filters(fl, k + 1, 0, exl + act)
        ELSE apply_filters(fl, k + 1, act, exl)
    ELSE IF fl[k].kind = "include" THEN
        IF fl[k].pattern = "*" THEN apply_filters(fl, k + 1, act + exl, 0)
        ELSE apply_filters(fl, k + 1, act, exl)
    ELSE Raise(VenvPackException(MsgFilter))

\* The output argument: None or a path. The format argument is compared as a
\* whole ("==", "in"); chars(format) are its characters where it is joined to
\* the environment name.
Outputs ==
    Optional({ <<"l", "a", "r", "g", "e", ".", "z", "i", "p">>,
               <<"a", ".", "t", "a", "r", ".", "g", "z">>,
               <<"a", ".", "t", "g", "z">>,
               <<"a", ".", "t", "a", "r", ".", "b", "z", "2">>,
               <<"a", ".", "t", "b", "z", "2">>,
               <<"a", ".", "t", "a", "r">>,
               <<"f", "o", "o", ".", "b", "a", "r">>,
               <<"z", "i", "p">>,
               <<"a", ".", "z", "i", "p", ".", "g", "z">> })
LargeOutput == Some(<<"l", "a", "r", "g", "e", ".", "z", "i", "p">>)
Formats == {"infer", "zip", "tar.gz", "tgz", "tar.bz2", "tbz2", "tar", "foo"}
KnownFormats == {"zip", "tar.gz", "tgz", "tar.bz2", "tbz2", "tar"}

chars(format) ==
    CASE format = "zip" -> <<"z", "i", "p">>
      [] format = "tar.gz" -> <<"t", "a", "r", ".", "g", "z">>
      [] format = "tgz" -> <<"t", "g", "z">>
      [] format = "tar.bz2" -> <<"t", "a", "r", ".", "b", "z", "2">>
      [] format = "tbz2" -> <<"t", "b", "z", "2">>
      [] format = "tar" -> <<"t", "a", "r">>
      [] format = "infer" -> <<"i", "n", "f", "e", "r">>
      [] OTHER -> <<"f", "o", "o">>

\* os.extsep
extsep == <<".">>

_output_and_format_by_extension(name, output, format) ==
    LET inferred ==
            IF ~output.some THEN Ok("tar.gz")
            ELSE IF endswith(output.s, extsep \o chars("zip")) THEN Ok("zip")
            ELSE IF endswith(output.s, extsep \o chars("tar.gz"))
                    \/ endswith(output.s, extsep \o chars("tgz")) THEN Ok("tar.gz")
            ELSE IF endswith(output.s, extsep \o chars("tar.bz2"))
                    \/ endswith(output.s, extsep \o chars("tbz2")) THEN Ok("tar.bz2")
            ELSE IF endswith(output.s, extsep \o chars("tar")) THEN Ok("tar")
            ELSE IF format = "infer" THEN Raise(VenvPackException(MsgExtension))
            ELSE IF format \notin KnownFormats THEN Raise(VenvPackException(MsgFormat))
            ELSE Ok(format)
    IN  IF inferred.raised THEN inferred
        ELSE IF output.some THEN Ok(<<output.s, inferred.value>>)
        ELSE Ok(<<name \o extsep \o chars(inferred.value), inferred.value>>)

\* Env._output_and_format(output, format) of an Env whose name is `name`:
\* (output, format) or VenvPackException
_output_and_format(name, output, format) ==
    LET fmt ==
            IF ~output.some /\ format = "infer" THEN Ok("tar.gz")
            ELSE IF format = "infer" THEN
                IF endswith(output.s, extsep \o chars("zip")) THEN Ok("zip")
                ELSE IF endswith(output.s, extsep \o chars("tar.gz"))
                        \/ endswith(output.s, extsep \o chars("tgz")) THEN Ok("tar.gz")
                ELSE IF endswith(output.s, extsep \o chars("tar.bz2"))
                        \/ endswith(output.s, extsep \o chars("tbz2")) THEN Ok("tar.bz2")
                ELSE IF endswith(output.s, extsep \o chars("tar")) THEN Ok("tar")
                ELSE Raise(VenvPackException(MsgExtension))
            ELSE IF format \notin KnownFormats THEN Raise(VenvPackException(MsgFormat))
            ELSE Ok(format)
    IN  IF fmt.raised THEN fmt
        ELSE IF output.some THEN Ok(<<output.s, fmt.value>>)
        ELSE Ok(<<name \o extsep \o chars(fmt.value), fmt.value>>)

\* Env.name: os.path.basename(self.prefix)
name_of(pfx) == basename(pfx)

(***************************************************************************)
(* rewrite_shebang and SHEBANG_REGEX                                       *)
(***************************************************************************)
RECURSIVE skip_spaces(_, _)
\* (?:[ ]*) : the position after the spaces that start at position i
skip_spaces(data, i) ==
    IF i <= Len(data) /\ data[i] = " " THEN skip_spaces(data, i + 1) ELSE i

RECURSIVE executable_end(_, _)
\* (?:\\ |[^ \n\r\t])* : the position after the longest run, from position
\* i, of backslash-space pairs and characters that are not whitespace
executable_end(data, i) ==
    IF i > Len(data) THEN i
    ELSE IF data[i] = "\\" /\ i < Len(data) /\ data[i + 1] = " "
         THEN executable_end(data, i + 2)
    ELSE IF data[i] \notin Whitespace THEN executable_end(data, i + 1)
    ELSE i

RECURSIVE line_end(_, _)
\* (.*)$ with re.MULTILINE: the position of the first "\n" at or after i, or
\* Len(data) + 1
line_end(data, i) ==
    IF i > Len(data) \/ data[i] = "\n" THEN i ELSE line_end(data, i + 1)

\* re.match(SHEBANG_REGEX, data, re.MULTILINE): the groups (whole shebang,
\* executable, options) when data starts with "#!", any spaces and "/"
shebang_match(data) ==
    LET i == skip_spaces(data, 3)
        j == executable_end(data, i + 1)
        k == line_end(data, j)
    IN  IF startswith(data, <<"#", "!">>) /\ i <= Len(data) /\ data[i] = "/"
        THEN [matched |-> TRUE,
              shebang |-> SubSeq(data, 1, k - 1),
              executable |-> SubSeq(data, i, j - 1),
              options |-> SubSeq(data, j, k - 1)]
        ELSE [matched |-> FALSE, shebang |-> <<>>, executable |-> <<>>, options |-> <<>>]

usr_bin_env == <<"#", "!", "/", "u", "s", "r", "/", "b", "i", "n", "/", "e", "n", "v", " ">>

\* rewrite_shebang with the options of the shebang line dropped
rewrite_shebang_no_options(data, pfx) ==
    LET m == shebang_match(data)
    IN  IF ~m.matched THEN <<data, FALSE>>
        ELSE IF count(data, pfx) > 1 THEN <<data, FALSE>>
        ELSE IF startswith(m.executable, pfx)
             THEN <<replace(data, m.shebang, usr_bin_env \o basename(m.executable)), TRUE>>
        ELSE <<data, TRUE>>

\* rewrite_shebang with the whole path of the executable kept after env
rewrite_shebang_full_path(data, pfx) ==
    LET m == shebang_match(data)
    IN  IF ~m.matched THEN <<data, FALSE>>
        ELSE IF count(data, pfx) > 1 THEN <<data, FALSE>>
        ELSE IF startswith(m.executable, pfx)
             THEN <<replace(data, m.shebang, usr_bin_env \o m.executable \o m.options), TRUE>>
        ELSE <<data, TRUE>>

\* rewrite_shebang(data, target, prefix): (data, fixed)
rewrite_shebang(data, pfx) ==
    LET m == shebang_match(data)
        executable_name == split(m.executable, "/")[Len(split(m.executable, "/"))]
        new_shebang == usr_bin_env \o executable_name \o m.options
    IN  IF ~m.matched THEN <<data, FALSE>>
        ELSE IF count(data, pfx) > 1 THEN <<data, FALSE>>
        ELSE IF startswith(m.executable, pfx)
             THEN <<replace(data, m.shebang, new_shebang), TRUE>>
        ELSE <<data, TRUE>>

\* formats.archive(): ZipArchive for "zip", TarArchive otherwise
archive(format) == IF format = "zip" THEN "zip" ELSE "tar"

\* The python_prefix argument: None, an absolute path (written with a
\* trailing slash), a relative path
AbsolutePrefix == <<"/", "o", "/">>
PythonPrefixes == {None, Some(AbsolutePrefix), Some(<<"o", "/", "p">>)}

\* check_python_prefix(python_prefix, context): (python_prefix, rewrites)
check_python_prefix(python_prefix, context) ==
    IF ~python_prefix.some THEN Ok([python_prefix |-> None, rewrites |-> <<>>])
    ELSE IF ~isabs(python_prefix.s) THEN Raise(VenvPackException(MsgAbsolute))
    ELSE LET pp == normpath(python_prefix.s)
         IN  IF context.kind = "venv"
             THEN Ok([python_prefix |-> Some(pp),
                      rewrites |-> << <<join3(context.orig_prefix, BIN_DIR, s_python),
                                        join3(pp, BIN_DIR, basename(context.py_lib))>> >>])
             ELSE Ok([python_prefix |-> Some(pp),
                      rewrites |-> << <<join3(context.orig_prefix, context.py_lib, <<>>),
                                        join3(pp, context.py_lib, <<>>)>>,
                                      <<join(context.orig_prefix, context.py_include),
                                        join(pp, context.py_include)>> >>])

(***************************************************************************)
(* TarArchive, Packer.add and Packer.finish by what they hand the archive. *)
(***************************************************************************)
\* What the archive holds for one call: the method called, the member name,
\* the member type, the link target of a link member, the bytes of a file
\* member.
Member(via, name, type, linkname, data) ==
    [via |-> via, name |-> name, type |-> type, linkname |-> linkname, data |-> data]

islink(n) == n.type \in {"link", "dirlink"}
isdir(n) == n.type \in {"dir", "dirlink"}

\* TarArchive.add(source, target): tarfile.add with dereference=False and
\* recursive=False stores a symlink as a link member, a directory as a
\* directory member without its content, a file with its bytes
tar_add(n, target) ==
    IF islink(n) THEN Member("add", target, "link", n.link, <<>>)
    ELSE IF n.type = "dir" THEN Member("add", target, "dir", <<>>, <<>>)
    ELSE Member("add", target, "file", <<>>, n.data)

\* TarArchive.add_bytes(source, sourcebytes, target)
tar_add_bytes(n, sourcebytes, target) == Member("add_bytes", target, "file", <<>>, sourcebytes)

\* TarArchive.add_link(source, sourcelink, target)
tar_add_link(n, sourcelink, target) == Member("add_link", target, "link", sourcelink, <<>>)

(***************************************************************************)
(* ZipArchive by the entries it writes.                                    *)
(***************************************************************************)
\* One entry of the zip file: its name, its content, and its external_attr
\* as the two parts the code builds it from, the st_mode shifted into the
\* upper 16 bits (mode) and the MS-DOS directory flag 0x10 (dos_dir).
ZipEntry(name, data, mode, dos_dir) ==
    [name |-> name, data |-> data, mode |-> mode, dos_dir |-> dos_dir]

\* A source path on disk: what os.lstat sees (type, and link for a link),
\* what os.stat sees behind it (to: "file", "dir", or "none" for a link that
\* resolves to nothing), the bytes of that file, the tree below that
\* directory.
ZipSource(type, link, to, data, beneath) ==
    [type |-> type, link |-> link, to |-> to, data |-> data, beneath |-> beneath]

\* st_mode & 0xFFFF of each kind of file, by name
st_mode(kind) ==
    IF kind = "link" THEN "S_IFLNK|0o777"
    ELSE IF kind = "dir" THEN "S_IFDIR|0o755"
    ELSE "S_IFREG|0o644"

RECURSIVE strip_seps(_)
strip_seps(p) == IF p # <<>> /\ Head(p) = "/" THEN strip_seps(Tail(p)) ELSE p

\* zipfile.ZipFile.write(filename, arcname): ZipInfo.from_file takes
\* os.stat(filename), which follows links and raises for a path that
\* resolves to nothing, normalises arcname, and stores a directory as an
\* entry without content whose name ends with "/"
zip_write(to, data, arcname) ==
    IF to = "none" THEN Raise("OSError")
    ELSE IF to = "dir"
         THEN Ok(<<ZipEntry(strip_seps(normpath(arcname)) \o <<"/">>, <<>>, st_mode("dir"), TRUE)>>)
         ELSE Ok(<<ZipEntry(strip_seps(normpath(arcname)), data, st_mode("file"), FALSE)>>)

\* The os.walk loop of ZipArchive.add over the directory a link resolves to,
\* from the directory rel below source on; directories are listed in the
\* order of the tree
RECURSIVE zip_walk(_, _, _, _)
RECURSIVE zip_walk_dirs(_, _, _, _)
zip_walk(beneath, source, target, rel) ==
    LET here == listdir(beneath, rel)
        files == SelectSeq(here, LAMBDA n : n.type = "file")
        dirs == SelectSeq(here, LAMBDA n : n.type = "dir")
        root == IF rel = <<>> THEN source ELSE join(source, rel)
        root2 == join(target, relpath(root, source))
    IN  [k \in 1 .. Len(files) |->
            zip_write("file", files[k].data, join(root2, basename(files[k].path))).value[1]]
        \o (IF dirs = <<>> /\ files = <<>> THEN zip_write("dir", <<>>, root2).value ELSE <<>>)
        \o zip_walk_dirs(beneath, source, target, dirs)
zip_walk_dirs(beneath, source, target, dirs) ==
    IF dirs = <<>> THEN <<>>
    ELSE zip_walk(beneath, source, target, Head(dirs).path)
         \o zip_walk_dirs(beneath, source, target, Tail(dirs))

\* ZipArchive.add_link past its zip_symlinks test: one entry named target
\* whose content is sourcelink, with the mode os.lstat(source) gives and the
\* directory flag when os.path.isdir(source)
zip_link_entry(src, sourcelink, target) ==
    ZipEntry(target, sourcelink, st_mode(src.type), src.to = "dir")

\* ZipArchive.add(source, target), always storing a link as a link entry
ZipArchive_add_keeps_links(zip_symlinks, src, source, target) ==
    IF src.type = "link"
    THEN Ok(<<zip_link_entry(src, src.link, target)>>)
    ELSE zip_write(src.to, src.data, target)

\* ZipArchive.add(source, target)
ZipArchive_add(zip_symlinks, src, source, target) ==
    IF src.type = "link"
    THEN IF zip_symlinks
         THEN Ok(<<zip_link_entry(src, src.link, target)>>)
         ELSE IF src.to = "dir"
              THEN Ok(zip_walk(src.beneath, source, target, <<>>))
              ELSE zip_write(src.to, src.data, target)
    ELSE zip_write(src.to, src.data, target)

\* ZipArchive.add_link(source, sourcelink, target)
ZipArchive_add_link(zip_symlinks, src, source, sourcelink, target) ==
    IF ~zip_symlinks
    THEN ZipArchive_add(zip_symlinks, src, source, target)
    ELSE Ok(<<zip_link_entry(src, sourcelink, target)>>)

\* The entry of the tree a manifest entry's source names
node_at(tree, target) == tree[CHOOSE k \in 1 .. Len(tree) : tree[k].path = target]

RECURSIVE first_rule(_, _, _)
\* "for orig, new in self.rewrites: if link_target.startswith(orig)": the
\* position of the first rule that applies, 0 when none does
first_rule(rewrites, link_target, k) ==
    IF k > Len(rewrites) THEN 0
    ELSE IF startswith(link_target, rewrites[k][1]) THEN k
    ELSE first_rule(rewrites, link_target, k + 1)

\* Packer.add(file)
Packer_add(pk, context, tree, file) ==
    LET n == node_at(tree, file.target)
        r == first_rule(pk.rewrites, n.link, 1)
    IN  IF pk.rewrites # <<>> /\ islink(n) THEN
            IF r > 0
            THEN tar_add_link(n, replace(n.link, pk.rewrites[r][1], pk.rewrites[r][2]), file.target)
            ELSE tar_add(n, file.target)
        ELSE IF startswith(file.target, BIN_DIR) /\ ~(isdir(n) \/ islink(n))
        THEN tar_add_bytes(n, rewrite_shebang(n.data, context.prefix)[1], file.target)
        ELSE tar_add(n, file.target)

\* os.listdir(os.path.join(SCRIPTS, 'common')): the helper scripts shipped
\* with the package
ScriptNames ==
    SubSeq(<<s_activate, s_activate \o <<".", "c", "s", "h">>, s_activate \o <<".", "f", "i", "s", "h">>>>, 1, ScriptCount)

\* Packer.finish() with the origin file of a virtualenv added under its full
\* path
Packer_finish_full_path(pk, context, f) ==
    [k \in 1 .. Len(ScriptNames) |->
        tar_add(Node(ScriptNames[k], "file", <<>>, s_x), join(BIN_DIR, ScriptNames[k]))]
    \o IF context.kind = "venv"
       THEN IF ~pk.python_prefix.some
            THEN <<tar_add(Node(s_pyvenv_cfg, "file", <<>>, f.cfg.s), s_pyvenv_cfg)>>
            ELSE <<tar_add_bytes(Node(s_pyvenv_cfg, "file", <<>>, f.cfg.s),
                                 replace(f.cfg.s, context.orig_prefix, pk.python_prefix.s),
                                 s_pyvenv_cfg)>>
       ELSE LET origprefix_txt == join3(context.prefix, context.py_lib, s_orig_prefix_txt)
                target == origprefix_txt
            IN  IF ~pk.python_prefix.some
                THEN <<tar_add(Node(target, "file", <<>>, f.origtxt.s), target)>>
                ELSE <<tar_add_bytes(Node(target, "file", <<>>, f.origtxt.s),
                                     pk.python_prefix.s, target)>>

\* Packer.finish(): the helper scripts, then the origin file, rewritten when
\* python_prefix is given
Packer_finish(pk, context, f) ==
    [k \in 1 .. Len(ScriptNames) |->
        tar_add(Node(ScriptNames[k], "file", <<>>, s_x), join(BIN_DIR, ScriptNames[k]))]
    \o IF context.kind = "venv"
       THEN IF ~pk.python_prefix.some
            THEN <<tar_add(Node(s_pyvenv_cfg, "file", <<>>, f.cfg.s), s_pyvenv_cfg)>>
            ELSE <<tar_add_bytes(Node(s_pyvenv_cfg, "file", <<>>, f.cfg.s),
                                 replace(f.cfg.s, context.orig_prefix, pk.python_prefix.s),
                                 s_pyvenv_cfg)>>
       ELSE LET origprefix_txt == join3(context.prefix, context.py_lib, s_orig_prefix_txt)
                target == relpath(origprefix_txt, context.prefix)
            IN  IF ~pk.python_prefix.some
                THEN <<tar_add(Node(target, "file", <<>>, f.origtxt.s), target)>>
                ELSE <<tar_add_bytes(Node(target, "file", <<>>, f.origtxt.s),
                                     pk.python_prefix.s, target)>>

\* Env.exclude that forgets the entries it drops
exclude_files_forgetful(env, pattern) ==
    [env EXCEPT !.files = SelectSeq(env.files, LAMBDA x : ~fnmatch(x.target, pattern))]

\* Env.exclude and Env.include on an Env value [context, files, excluded]
exclude_files(env, pattern) ==
    [env EXCEPT !.files = SelectSeq(env.files, LAMBDA x : ~fnmatch(x.target, pattern)),
                !.excluded = env.excluded \o SelectSeq(env.files, LAMBDA x : fnmatch(x.target, pattern))]

include_files(env, pattern) ==
    [env EXCEPT !.files = env.files \o SelectSeq(env.excluded, LAMBDA x : fnmatch(x.target, pattern)),
                !.excluded = SelectSeq(env.excluded, LAMBDA x : ~fnmatch(x.target, pattern))]

\* The archive writer: members written, the offset the next member starts at
\* (kept up to ZIP64_LIMIT), and whether the offset has passed ZIP64_LIMIT.
NewArchive(kind) == [kind |-> kind, open |-> TRUE, count |-> 0, offset |-> 0, past |-> FALSE]
NoArchive == [kind |-> "none", open |-> FALSE, count |-> 0, offset |-> 0, past |-> FALSE]

advance(a, size) ==
    IF a.kind = "tar" THEN [a EXCEPT !.count = @ + 1]
    ELSE IF a.past \/ size > ZIP64_LIMIT - a.offset
         THEN [a EXCEPT !.count = @ + 1, !.past = TRUE]
         ELSE [a EXCEPT !.count = @ + 1, !.offset = @ + size]

\* ZipFile.write / writestr with allowZip64=False: LargeZipFile when the
\* archive already holds ZIP_FILECOUNT_LIMIT members, the file is longer than
\* ZIP64_LIMIT, or the member would start past ZIP64_LIMIT.
requires_zip64_write(a, size) ==
    \/ a.count >= ZIP_FILECOUNT_LIMIT
    \/ size > ZIP64_LIMIT
    \/ a.past

\* ZipFile.close(): the end record needs ZIP64 when there are more than
\* ZIP_FILECOUNT_LIMIT members or the central directory starts past
\* ZIP64_LIMIT.
requires_zip64_close(a) ==
    \/ a.count > ZIP_FILECOUNT_LIMIT
    \/ a.past

archive_add(a, size, zip_64) ==
    IF a.kind = "zip" /\ ~zip_64 /\ requires_zip64_write(a, size)
    THEN [raised |-> TRUE, value |-> a, exc |-> LargeZipFile]
    ELSE [raised |-> FALSE, value |-> advance(a, size), exc |-> NoExc]

archive_close(a, zip_64) ==
    IF a.kind = "zip" /\ ~zip_64 /\ requires_zip64_close(a)
    THEN [raised |-> TRUE, value |-> [a EXCEPT !.open = FALSE], exc |-> LargeZipFile]
    ELSE [raised |-> FALSE, value |-> [a EXCEPT !.open = FALSE], exc |-> NoExc]

\* The context of the Env being packed, of the kind discovery found
context_of(kind) ==
    AttrDict(kind, prefix, <<"/", "u">>, <<join(s_lib, python_ver), join(s_include, python_ver)>>)

\* The Env variables while pack() is modelled.
EnvIdle == Env__init__(<<>>)

\* The model follows a manifest of more than MaxFiles entries only through
\* the call test_zip64 makes: a virtualenv, no filters, output "*.zip" with
\* the format inferred, no python_prefix, no force, and no I/O failure.
IsLarge == active + excluded > MaxFiles

InitPack ==
    /\ EnvIdle
    /\ ToolIdle
    /\ ContentIdle
    /\ out \in {"absent", "old"}
    /\ call = [kind |-> "?", size |-> 0, format |-> "?", force |-> FALSE,
               zip_64 |-> TRUE, python_prefix |-> None, out0 |-> out]
    /\ pc = "pack"
    /\ active = 0
    /\ excluded = 0
    /\ idx = 0
    /\ arc = NoArchive
    /\ temp = "none"
    /\ exc = NoExc
    /\ hist = {}

\* pack(): env = Env(prefix=prefix)
LoadEnvironment ==
    /\ pc = "pack"
    /\ \E f \in EnvFacts : \E r \in {load_environment(f)} :
            IF r.raised
            THEN /\ exc' = r.exc
                 /\ pc' = "raised"
                 /\ UNCHANGED <<call, active>>
            ELSE \E n \in SmallCounts \cup LargeCounts, size \in Sizes :
                 /\ n \in LargeCounts => r.value.context.kind = "virtualenv" /\ size \in LargeSizes
                 /\ call' = [call EXCEPT !.kind = r.value.context.kind, !.size = size]
                 /\ active' = n
                 /\ pc' = "filters"
                 /\ UNCHANGED exc
    /\ UNCHANGED <<excluded, idx, arc, temp, out, hist>>
    /\ UNCHANGED <<envVars, toolVars, contentVars>>

\* pack(): the filters loop
ApplyFilters ==
    /\ pc = "filters"
    /\ \E fl \in FilterLists :
        /\ IsLarge => fl = <<>>
        /\ LET r == apply_filters(fl, 1, active, excluded)
           IN  IF r.raised
               THEN /\ exc' = r.exc
                    /\ pc' = "raised"
                    /\ UNCHANGED <<active, excluded>>
               ELSE /\ active' = r.value[1]
                    /\ excluded' = r.value[2]
                    /\ pc' = "env_pack"
                    /\ UNCHANGED exc
    /\ UNCHANGED <<call, idx, arc, temp, out, hist>>
    /\ UNCHANGED <<envVars, toolVars, contentVars>>

\* Env.pack(): output, format = self._output_and_format(output, format)
OutputAndFormat ==
    /\ pc = "env_pack"
    /\ \E output \in Outputs, format \in Formats :
        /\ IsLarge => output = LargeOutput /\ format = "infer"
        /\ LET r == _output_and_format(name_of(prefix), output, format)
           IN  IF r.raised
               THEN /\ exc' = r.exc
                    /\ pc' = "raised"
                    /\ UNCHANGED call
               ELSE /\ call' = [call EXCEPT !.format = r.value[2]]
                    /\ pc' = "exists"
                    /\ UNCHANGED exc
    /\ UNCHANGED <<active, excluded, idx, arc, temp, out, hist>>
    /\ UNCHANGED <<envVars, toolVars, contentVars>>

\* Env.pack(): if os.path.exists(output) and not force: raise
ExistsCheck ==
    /\ pc = "exists"
    /\ \E force \in BOOLEAN :
        /\ IsLarge => ~force
        /\ IF out # "absent" /\ ~force
           THEN /\ exc' = VenvPackException(MsgExists)
                /\ pc' = "raised"
                /\ UNCHANGED call
           ELSE /\ call' = [call EXCEPT !.force = force]
                /\ pc' = "mkstemp"
                /\ UNCHANGED exc
    /\ UNCHANGED <<active, excluded, idx, arc, temp, out, hist>>
    /\ UNCHANGED <<envVars, toolVars, contentVars>>

\* Env.pack(): fd, temp_path = tempfile.mkstemp()   (before the try)
Mkstemp ==
    /\ pc = "mkstemp"
    /\ \/ /\ temp' = "empty"
          /\ hist' = hist \cup {"temp_created"}
          /\ pc' = "open"
          /\ UNCHANGED exc
       \/ /\ ~IsLarge
          /\ exc' = OSError
          /\ hist' = hist \cup {"fault"}
          /\ pc' = "raised"
          /\ UNCHANGED temp
    /\ UNCHANGED <<call, active, excluded, idx, arc, out>>
    /\ UNCHANGED <<envVars, toolVars, contentVars>>

\* Env.pack(): with os.fdopen(fd, 'wb') as temp_file: with archive(...) as
\* arc; TarArchive.__enter__ / ZipArchive.__enter__ open the writer (gzip
\* writes its header when it is opened).
OpenArchive ==
    /\ pc = "open"
    /\ \/ \E zip_64 \in BOOLEAN :
            /\ call' = [call EXCEPT !.zip_64 = zip_64]
            /\ arc' = NewArchive(archive(call.format))
            /\ hist' = hist \cup {"arc_opened"}
                       \cup (IF call.format \in {"tar.gz", "tgz"} THEN {"temp_written"} ELSE {})
            /\ temp' = IF call.format \in {"tar.gz", "tgz"} THEN "partial" ELSE temp
            /\ pc' = "packer"
            /\ UNCHANGED exc
       \/ /\ ~IsLarge
          /\ exc' = OSError
          /\ hist' = hist \cup {"fault"}
          /\ pc' = "exit_file"
          /\ UNCHANGED <<call, arc, temp>>
    /\ UNCHANGED <<active, excluded, idx, out>>
    /\ UNCHANGED <<envVars, toolVars, contentVars>>

\* Env.pack(): packer = Packer(self._context, arc, python_prefix), which
\* calls check_python_prefix
NewPacker ==
    /\ pc = "packer"
    /\ \E python_prefix \in PythonPrefixes :
        /\ IsLarge => python_prefix = None
        /\ LET r == check_python_prefix(python_prefix, context_of(call.kind))
           IN  IF r.raised
               THEN /\ exc' = r.exc
                    /\ pc' = "exit_archive"
                    /\ UNCHANGED call
               ELSE /\ call' = [call EXCEPT !.python_prefix = r.value.python_prefix]
                    /\ pc' = IF active = 0 THEN "finish" ELSE "add"
                    /\ UNCHANGED exc
    /\ idx' = 0
    /\ UNCHANGED <<active, excluded, arc, temp, out, hist>>
    /\ UNCHANGED <<envVars, toolVars, contentVars>>

\* Env.pack(): for f in files: packer.add(f), inside
\* try ... except zipfile.LargeZipFile: raise VenvPackException
PackerAdd ==
    /\ pc = "add"
    /\ idx < active
    /\ \/ LET r == archive_add(arc, call.size, call.zip_64)
          IN  IF r.raised
              THEN /\ exc' = VenvPackException(MsgZip64)
                   /\ pc' = "exit_archive"
                   /\ UNCHANGED <<arc, idx, temp, hist>>
              ELSE /\ arc' = r.value
                   /\ idx' = IF idx + 1 = active THEN 0 ELSE idx + 1
                   /\ pc' = IF idx + 1 = active THEN "finish" ELSE "add"
                   /\ temp' = "partial"
                   /\ hist' = hist \cup {"temp_written"}
                   /\ UNCHANGED exc
       \/ /\ ~IsLarge
          /\ exc' = OSError
          /\ hist' = hist \cup {"fault"}
          /\ pc' = "exit_archive"
          /\ UNCHANGED <<arc, idx, temp>>
    /\ UNCHANGED <<call, active, excluded, out>>
    /\ UNCHANGED <<envVars, toolVars, contentVars>>

\* Env.pack(): packer.finish(), inside the same try: the ScriptCount files
\* of scripts/common, then the origin-config file.
PackerFinish ==
    /\ pc = "finish"
    /\ idx <= ScriptCount
    /\ \/ LET r == archive_add(arc, 1, call.zip_64)
          IN  IF r.raised
              THEN /\ exc' = VenvPackException(MsgZip64)
                   /\ pc' = "exit_archive"
                   /\ UNCHANGED <<arc, idx, temp, hist>>
              ELSE /\ arc' = r.value
                   /\ idx' = IF idx = ScriptCount THEN 0 ELSE idx + 1
                   /\ pc' = IF idx = ScriptCount THEN "exit_archive" ELSE "finish"
                   /\ temp' = "partial"
                   /\ hist' = hist \cup {"temp_written"}
                   /\ UNCHANGED exc
       \/ /\ ~IsLarge
          /\ exc' = OSError
          /\ hist' = hist \cup {"fault"}
          /\ pc' = "exit_archive"
          /\ UNCHANGED <<arc, idx, temp>>
    /\ UNCHANGED <<call, active, excluded, out>>
    /\ UNCHANGED <<envVars, toolVars, contentVars>>

\* Leaving "with archive(...)": TarArchive.__exit__ / ZipArchive.__exit__
\* close the writer, which writes the end of the archive; an exception
\* raised by close replaces the one in flight.
ArchiveExit ==
    /\ pc = "exit_archive"
    /\ \/ LET r == archive_close(arc, call.zip_64)
          IN  /\ arc' = r.value
              /\ exc' = IF r.raised THEN r.exc ELSE exc
              /\ temp' = IF ~r.raised /\ exc = NoExc THEN "archive" ELSE "partial"
              /\ hist' = hist \cup {"temp_written"}
       \/ /\ ~IsLarge
          /\ exc' = OSError
          /\ arc' = [arc EXCEPT !.open = FALSE]
          /\ temp' = "partial"
          /\ hist' = hist \cup {"fault"}
    /\ pc' = "exit_file"
    /\ UNCHANGED <<call, active, excluded, idx, out>>
    /\ UNCHANGED <<envVars, toolVars, contentVars>>

\* Leaving "with os.fdopen(fd, 'wb') as temp_file": the file is closed; then
\* the except or the else clause of the try runs.
TempFileExit ==
    /\ pc = "exit_file"
    /\ \/ /\ pc' = IF exc = NoExc THEN "move" ELSE "except"
          /\ UNCHANGED <<exc, hist>>
       \/ /\ ~IsLarge
          /\ exc' = OSError
          /\ hist' = hist \cup {"fault"}
          /\ pc' = "except"
    /\ UNCHANGED <<call, active, excluded, idx, arc, temp, out>>
    /\ UNCHANGED <<envVars, toolVars, contentVars>>

\* except Exception: os.remove(temp_path); raise
RemoveTemp ==
    /\ pc = "except"
    /\ temp' = "none"
    /\ pc' = "raised"
    /\ UNCHANGED <<call, active, excluded, idx, arc, out, exc, hist>>
    /\ UNCHANGED <<envVars, toolVars, contentVars>>

\* else: shutil.move(temp_path, output). mkstemp() was called without dir,
\* so the temp file is in the default temp directory: os.rename works when
\* that is on the filesystem of output and the destination can be written;
\* otherwise shutil.move copies (copy2 opens the destination for writing)
\* and then unlinks the source.
Move ==
    /\ pc = "move"
    /\ \E way \in {"rename", "copy", "nodest"} :
        /\ IsLarge => way # "nodest"
        /\ \/ /\ way = "rename"
              /\ out' = "complete"
              /\ temp' = "none"
              /\ hist' = hist \cup {"renamed"}
              /\ pc' = "returned"
              /\ UNCHANGED exc
           \/ /\ way = "copy"
              /\ out' = "partial"
              /\ hist' = hist \cup {"copied"}
              /\ pc' = "copying"
              /\ UNCHANGED <<temp, exc>>
           \/ /\ way = "nodest"
              /\ exc' = OSError
              /\ hist' = hist \cup {"fault"}
              /\ pc' = "raised"
              /\ UNCHANGED <<temp, out>>
    /\ UNCHANGED <<call, active, excluded, idx, arc>>
    /\ UNCHANGED <<envVars, toolVars, contentVars>>

\* shutil.move, copy branch: copy2 writes the data, then os.unlink(src)
Copy ==
    /\ pc = "copying"
    /\ \/ /\ out' = "complete"
          /\ temp' = "none"
          /\ pc' = "returned"
          /\ UNCHANGED <<exc, hist>>
       \/ /\ ~IsLarge
          /\ exc' = OSError
          /\ hist' = hist \cup {"fault"}
          /\ pc' = "raised"
          /\ UNCHANGED <<temp, out>>
    /\ UNCHANGED <<call, active, excluded, idx, arc>>
    /\ UNCHANGED <<envVars, toolVars, contentVars>>

NextPack ==
    \/ LoadEnvironment
    \/ ApplyFilters
    \/ OutputAndFormat
    \/ ExistsCheck
    \/ Mkstemp
    \/ OpenArchive
    \/ NewPacker
    \/ PackerAdd
    \/ PackerFinish
    \/ ArchiveExit
    \/ TempFileExit
    \/ RemoveTemp
    \/ Move
    \/ Copy

SpecPack == InitPack /\ [][NextPack]_vars

(***************************************************************************)
(* Claims on pack() and Env.pack() (checked under SpecPack).               *)
(***************************************************************************)
Ended == pc \in {"returned", "raised"}

\* C5: if a step of Env.pack fails after the staging temp file was created,
\* the temp file is deleted, the error is propagated and nothing is moved
\* to the output path; whether pack returns or raises, no staging temp file
\* is left behind and the output path holds no partially written archive.
C5_TempCleanedUp ==
    /\ Ended => temp = "none" /\ out # "partial"
    /\ pc = "raised" /\ "temp_created" \in hist => out = call.out0

\* C6: the staging temp file is on the filesystem of the output path, so
\* the archive reaches the output path by one atomic rename and the output
\* path never holds an incomplete archive.
C6_AtomicMove ==
    /\ out # "partial"
    /\ "copied" \notin hist
    /\ pc = "returned" => "renamed" \in hist

\* C7: packing at least 65536 active entries into a zip with zip_64=False
\* raises VenvPackException mentioning ZIP64 and leaves no file at the
\* output path; the same pack with zip_64=True succeeds and creates the
\* output file. (Stated for runs without I/O failure into a free output
\* path.)
C7_Zip64Count ==
    ( /\ Ended
      /\ active >= ZIP_FILECOUNT_LIMIT + 1
      /\ call.format = "zip"
      /\ call.out0 = "absent"
      /\ "arc_opened" \in hist
      /\ "fault" \notin hist )
        => IF call.zip_64
           THEN pc = "returned" /\ out = "complete"
           ELSE pc = "raised" /\ exc = VenvPackException(MsgZip64) /\ out = "absent"

\* C8: with zip_64=False a ZIP64 overflow reported by the zip writer while
\* adding an entry, during finish or when the archive is closed reaches the
\* caller as VenvPackException; LargeZipFile never escapes from Env.pack.
\* (Stated for runs without I/O failure.)
C8_NoLargeZipFileEscapes ==
    pc = "raised" /\ "fault" \notin hist => exc.type # "LargeZipFile"

ConfigMsgs ==
    {MsgNotVenv, MsgNoPath, MsgInvalid, MsgEditable, MsgFilter, MsgExtension,
     MsgFormat, MsgExists, MsgAbsolute}

\* C9: every configuration error of pack is raised as VenvPackException
\* before the archive writer is opened and before any archive byte is
\* written to the staging file; only the ZIP64 overflow is raised later.
C9_ConfigErrorsEager ==
    (pc = "raised" /\ exc.type = "VenvPackException" /\ exc.msg \in ConfigMsgs)
        => "arc_opened" \notin hist /\ "temp_written" \notin hist

\* C10: a file that exists at the output path is changed only by a pack
\* that completes successfully with force=True, which replaces it with the
\* complete archive; without force pack raises VenvPackException without
\* creating a temp file or touching the file, and with force a pack that
\* fails leaves the file as it was.
C10_ExistingOutput ==
    call.out0 = "old" =>
        /\ (Ended /\ out # "old") => pc = "returned" /\ call.force /\ out = "complete"
        /\ pc = "raised" => out = "old"
        /\ "temp_created" \in hist => call.force
        /\ (pc = "raised" /\ exc = VenvPackException(MsgExists))
               => temp = "none" /\ "temp_created" \notin hist /\ out = "old"

(***************************************************************************)
(* SpecTools: the pure functions, each applied once to an input drawn from *)
(* a bounded set.                                                          *)
(***************************************************************************)
\* A file of bin/ by its parts: what precedes the executable of the first
\* line, the executable, the rest of the first line, the rest of the file.
ShebangStarts == { <<"#", "!">>, <<"#", "!", " ">>, <<>>, <<"#", "!", "\t">>, <<"#", "!", " ", " ">> }
Executables ==
    { <<"/", "e", "/", "b", "i", "n", "/", "p", "y", "t", "h", "o", "n", "3", ".", "7">>,
      <<"/", "e", "2", "/", "b", "i", "n", "/", "p", "y", "t", "h", "o", "n">>,
      <<"/", "u", "/", "b", "i", "n", "/", "p", "y", "t", "h", "o", "n">>,
      <<"/", "e", "/", "b", "i", "n", "/", "p", "y", "\\", " ", "t", "h", "o", "n">>,
      <<"/", "e">>,
      <<"p", "y", "t", "h", "o", "n">>,
      <<"/", "e", "/">> }
ShebangOptions == { <<>>, <<" ", "-", "O">>, <<"\r">>, <<" ", "-", "E", " ", "-", "s", "\r">> }
FileRests == { <<>>, <<"\n", "x", "\n">>, <<"\n", "#", " ", "/", "e", "\n">>, <<"\n", "#", "!", "/", "e", "/", "b", "i", "n", "/", "p", "y", "t", "h", "o", "n", "3", ".", "7", "\n">> }
ShebangInputs == [pre : ShebangStarts, exe : Executables, opt : ShebangOptions, rest : FileRests]

data_of(a) == a.pre \o a.exe \o a.opt \o a.rest

\* The sources ZipArchive.add and ZipArchive.add_link are called on: a file,
\* a directory, a link to a file, a link to a directory (empty, with a
\* file, with a file and an empty directory, with a file in a directory), a
\* link that resolves to nothing; the link targets a caller asks for; the
\* names in the archive.
ZipTrees ==
    { <<>>,
      <<Node(<<"a", ".", "h">>, "file", <<>>, <<"h">>)>>,
      <<Node(<<"a", ".", "h">>, "file", <<>>, <<"h">>), Node(<<"d">>, "dir", <<>>, <<>>)>>,
      <<Node(<<"d">>, "dir", <<>>, <<>>), Node(<<"d", "/", "b", ".", "h">>, "file", <<>>, <<"b">>), Node(<<"c">>, "dir", <<>>, <<>>)>> }
ZipSources ==
    { ZipSource("file", <<>>, "file", <<"x">>, <<>>),
      ZipSource("dir", <<>>, "dir", <<>>, <<>>),
      ZipSource("link", <<"/", "u", "/", "b", "i", "n", "/", "p", "y", "t", "h", "o", "n">>, "file", <<"p", "y">>, <<>>),
      ZipSource("link", <<"p", "y", "t", "h", "o", "n", "3">>, "file", <<"p", "y">>, <<>>),
      ZipSource("link", <<"/", "g", "o", "n", "e">>, "none", <<>>, <<>>) }
    \cup { ZipSource("link", <<"/", "u", "/", "i", "n", "c", "l", "u", "d", "e">>, "dir", <<>>, t) : t \in ZipTrees }
ZipLinks == {<<"/", "o", "/", "b", "i", "n", "/", "p", "y", "t", "h", "o", "n", "3", ".", "7">>, <<"d", "i", "r", "/", "o", "n", "e">>}
ZipTargets == {<<"b", "i", "n", "/", "p", "y", "t", "h", "o", "n">>, <<"i", "n", "c", "l", "u", "d", "e">>}
ZipAddInputs == [zip_symlinks : BOOLEAN, src : ZipSources, target : ZipTargets]
ZipAddLinkInputs ==
    [zip_symlinks : BOOLEAN, src : {s \in ZipSources : s.type = "link"},
     sourcelink : ZipLinks, target : ZipTargets]

\* The entries Packer.add is called on: a file, a directory or a link, below
\* bin, below lib, or at the top with a name that starts with "bin"; of an
\* environment at /e or at /u; with python_prefix given or not.
AddTargets == {<<"b", "i", "n", "/", "x">>, <<"l", "i", "b", "/", "x">>, <<"b", "i", "n", ".", "p", "y">>}
AddLinks == {<<"/", "u", "/", "b", "i", "n", "/", "p", "y", "t", "h", "o", "n">>, <<"p", "y", "t", "h", "o", "n">>}
AddPrefixes == {<<"/", "e">>, <<"/", "u">>}
NoShebangInput == [pre |-> <<>>, exe |-> <<>>, opt |-> <<>>, rest |-> <<>>]
PackerAddInputs ==
    [target : AddTargets, type : {"file"}, link : {<<>>}, a : ShebangInputs,
     pfx : AddPrefixes, relocate : BOOLEAN]
    \cup [target : AddTargets \cup {BIN_DIR}, type : {"dir"}, link : {<<>>}, a : {NoShebangInput},
          pfx : AddPrefixes, relocate : BOOLEAN]
    \cup [target : AddTargets, type : {"link", "dirlink"}, link : AddLinks, a : {NoShebangInput},
          pfx : AddPrefixes, relocate : BOOLEAN]

\* The Packer and the context of such a call: a venv made by /u/bin/python
add_context(a) ==
    AttrDict("venv", a.pfx, <<"/", "u">>, <<join(s_lib, python_ver), join(s_include, python_ver)>>)
add_packer(a) ==
    check_python_prefix(IF a.relocate THEN Some(AbsolutePrefix) ELSE None, add_context(a)).value

NotCalled(fn, arg) == [fn |-> fn, arg |-> arg, done |-> FALSE, res |-> <<>>]

InitTools ==
    /\ \/ \E o \in Outputs, fmt \in Formats :
            tool = NotCalled("_output_and_format", [output |-> o, format |-> fmt])
       \/ \E f \in EnvFacts : tool = NotCalled("check_prefix", f)
       \/ \E f \in EnvFacts : tool = NotCalled("load_environment", f)
       \/ \E a \in ShebangInputs : tool = NotCalled("rewrite_shebang", a)
       \/ \E a \in PackerAddInputs : tool = NotCalled("Packer.add", a)
       \/ \E a \in ZipAddInputs : tool = NotCalled("ZipArchive.add", a)
       \/ \E a \in ZipAddLinkInputs : tool = NotCalled("ZipArchive.add_link", a)
    /\ EnvIdle
    /\ PackIdle
    /\ ContentIdle

Returned(res) == [tool EXCEPT !.done = TRUE, !.res = res]

CallOutputAndFormat ==
    /\ tool.fn = "_output_and_format" /\ ~tool.done
    /\ tool' = Returned(_output_and_format(name_of(prefix), tool.arg.output, tool.arg.format))
    /\ UNCHANGED <<envVars, packVars, contentVars>>

CallCheckPrefix ==
    /\ tool.fn = "check_prefix" /\ ~tool.done
    /\ tool' = Returned(check_prefix(tool.arg))
    /\ UNCHANGED <<envVars, packVars, contentVars>>

\* Env(prefix): context, files = load_environment(prefix)
CallLoadEnvironment ==
    /\ tool.fn = "load_environment" /\ ~tool.done
    /\ tool' = Returned(load_environment(tool.arg))
    /\ UNCHANGED <<envVars, packVars, contentVars>>

CallRewriteShebang ==
    /\ tool.fn = "rewrite_shebang" /\ ~tool.done
    /\ tool' = Returned(rewrite_shebang(data_of(tool.arg), prefix))
    /\ UNCHANGED <<envVars, packVars, contentVars>>

\* Packer.add(file) on an archive that records what it is handed
CallPackerAdd ==
    /\ tool.fn = "Packer.add" /\ ~tool.done
    /\ tool' = Returned(Packer_add(add_packer(tool.arg), add_context(tool.arg),
                                   <<Node(tool.arg.target, tool.arg.type, tool.arg.link, data_of(tool.arg.a))>>,
                                   [source |-> join(tool.arg.pfx, tool.arg.target), target |-> tool.arg.target]))
    /\ UNCHANGED <<envVars, packVars, contentVars>>

\* ZipArchive(fileobj, zip_symlinks).add(source, target) of a source below /e
CallZipAdd ==
    /\ tool.fn = "ZipArchive.add" /\ ~tool.done
    /\ tool' = Returned(ZipArchive_add(tool.arg.zip_symlinks, tool.arg.src,
                                       join(<<"/", "e">>, tool.arg.target), tool.arg.target))
    /\ UNCHANGED <<envVars, packVars, contentVars>>

\* ZipArchive(fileobj, zip_symlinks).add_link(source, sourcelink, target)
CallZipAddLink ==
    /\ tool.fn = "ZipArchive.add_link" /\ ~tool.done
    /\ tool' = Returned(ZipArchive_add_link(tool.arg.zip_symlinks, tool.arg.src,
                                            join(<<"/", "e">>, tool.arg.target),
                                            tool.arg.sourcelink, tool.arg.target))
    /\ UNCHANGED <<envVars, packVars, contentVars>>

NextTools ==
    \/ CallOutputAndFormat
    \/ CallCheckPrefix
    \/ CallLoadEnvironment
    \/ CallRewriteShebang
    \/ CallPackerAdd
    \/ CallZipAdd
    \/ CallZipAddLink

SpecTools == InitTools /\ [][NextTools]_vars

(***************************************************************************)
(* Claims on the pure functions (checked under SpecTools).                 *)
(***************************************************************************)
Called(fn) == tool.fn = fn /\ tool.done

\* The format each output path of Outputs names by its extension
ExtensionFormat ==
    << <<<<"l", "a", "r", "g", "e", ".", "z", "i", "p">>, "zip">>,
       <<<<"a", ".", "t", "a", "r", ".", "g", "z">>, "tar.gz">>,
       <<<<"a", ".", "t", "g", "z">>, "tar.gz">>,
       <<<<"a", ".", "t", "a", "r", ".", "b", "z", "2">>, "tar.bz2">>,
       <<<<"a", ".", "t", "b", "z", "2">>, "tar.bz2">>,
       <<<<"a", ".", "t", "a", "r">>, "tar">> >>

NamedByExtension(output) ==
    {ExtensionFormat[k][2] : k \in {i \in 1 .. Len(ExtensionFormat) : ExtensionFormat[i][1] = output}}

\* C11: with format='infer' the format is the one the output extension
\* names, and tar.gz when output is None; an explicit format is returned
\* unchanged, whatever the extension of output; output None becomes
\* '<env name>.<format>' and a given output is returned as it is; an
\* unrecognised extension and an explicit format outside the six known ones
\* raise VenvPackException.
C11_OutputAndFormat ==
    Called("_output_and_format") =>
        LET output == tool.arg.output
            format == tool.arg.format
            res == tool.res
            expected ==
                IF format # "infer" THEN (IF format \in KnownFormats THEN {format} ELSE {})
                ELSE IF ~output.some THEN {"tar.gz"}
                ELSE NamedByExtension(output.s)
        IN  IF expected = {}
            THEN res.raised /\ res.exc.type = "VenvPackException"
            ELSE /\ ~res.raised
                 /\ res.value[2] \in expected
                 /\ res.value[1] = IF output.some THEN output.s
                                   ELSE <<"e", ".">> \o chars(res.value[2])

\* An explicit format was returned although the extension of output names
\* another one, and a call without output got '<env name>.<format>'.
C11_Witness ==
    /\ Called("_output_and_format")
    /\ ~tool.res.raised
    /\ \/ /\ tool.arg.output = Some(<<"l", "a", "r", "g", "e", ".", "z", "i", "p">>)
          /\ tool.arg.format = "tar"
          /\ tool.res.value = <<<<"l", "a", "r", "g", "e", ".", "z", "i", "p">>, "tar">>
       \/ /\ tool.arg.output = None
          /\ tool.arg.format = "tbz2"
          /\ tool.res.value = <<<<"e", ".", "t", "b", "z", "2">>, "tbz2">>

\* The first check succeeds: pyvenv.cfg exists and has a home key, and there
\* is one lib/python* directory. The second check succeeds: there is one
\* lib/python* directory and <py_lib>/orig-prefix.txt exists.
VenvCheckSucceeds(f) == ~check_venv(f, <<"/", "e">>).raised
VirtualenvCheckSucceeds(f) == ~check_virtualenv(f, <<"/", "e">>).raised

\* C12: check_prefix returns kind 'venv' whenever the venv check succeeds
\* (also when orig-prefix.txt is present), 'virtualenv' only when the venv
\* check fails and the virtualenv check succeeds, with prefix the absolute
\* form of the given path; it raises VenvPackException when the path does
\* not exist, when neither check succeeds, and when no path is given and
\* VIRTUAL_ENV is unset.
C12_CheckPrefixOrder ==
    Called("check_prefix") =>
        LET f == tool.arg
            res == tool.res
        IN  IF ~f.given \/ ~f.exists \/ (~VenvCheckSucceeds(f) /\ ~VirtualenvCheckSucceeds(f))
            THEN res.raised /\ res.exc.type = "VenvPackException"
            ELSE /\ ~res.raised
                 /\ res.value.prefix = <<"/", "e">>
                 /\ res.value.kind = IF VenvCheckSucceeds(f) THEN "venv" ELSE "virtualenv"

\* A location is rooted under the prefix: its components start with the
\* components of the prefix.
RootedUnder(location, pfx) ==
    LET lc == comps_of(location)
        pc_ == comps_of(pfx)
    IN  Len(pc_) <= Len(lc) /\ SubSeq(lc, 1, Len(pc_)) = pc_

\* The lines of the *.pth file that are neither comments nor empty and
\* resolve, from site-packages, to a location outside the environment.
OffendingLines(f) ==
    IF ~f.pth.some THEN {}
    ELSE LET dir == <<"/", "e", "/", "l", "i", "b", "/", "p", "y", "t", "h", "o", "n", "3", ".", "7", "/", "s", "i", "t", "e", "-", "p", "a", "c", "k", "a", "g", "e", "s">>
             ls == lines_of(f.pth.s)
         IN  {rstrip(ls[k]) : k \in {i \in 1 .. Len(ls) :
                  /\ ls[i][1] # "#"
                  /\ rstrip(ls[i]) # <<>>
                  /\ ~RootedUnder(normpath(join(dir, rstrip(ls[i]))), <<"/", "e">>)}}

\* C13: constructing an Env of a valid environment fails with
\* VenvPackException exactly when a line of a *.pth file that is neither a
\* comment nor empty resolves to a location that is not the prefix directory
\* or a path below it; the message lists every such line once, sorted.
C13_EditablePackages ==
    (Called("load_environment") /\ ~check_prefix(tool.arg).raised) =>
        LET res == tool.res
            bad == OffendingLines(tool.arg)
        IN  /\ res.raised <=> bad # {}
            /\ res.raised =>
                /\ res.exc = VenvPackException(MsgEditable)
                /\ Range(res.value) = bad
                /\ Len(res.value) = Cardinality(bad)
                /\ \A k \in 1 .. (Len(res.value) - 1) : str_lt(res.value[k], res.value[k + 1])

HasShebang(a) == startswith(a.pre, <<"#", "!">>) /\ \A k \in 3 .. Len(a.pre) : a.pre[k] = " "

\* C16: when the data begins with a shebang line whose executable starts
\* with the prefix and the prefix occurs once in the data, the line becomes
\* '#!/usr/bin/env <basename of the executable><options>' and every other
\* byte stays.
C16_ShebangRewritten ==
    ( /\ Called("rewrite_shebang")
      /\ HasShebang(tool.arg)
      /\ startswith(tool.arg.exe, prefix)
      /\ count(data_of(tool.arg), prefix) = 1 )
        => tool.res[1] = usr_bin_env \o basename(tool.arg.exe) \o tool.arg.opt \o tool.arg.rest

\* '#!/e/bin/python3.7 -O' followed by more lines became
\* '#!/usr/bin/env python3.7 -O' followed by the same lines.
C16_Witness ==
    /\ Called("rewrite_shebang")
    /\ tool.arg = [pre |-> <<"#", "!">>, exe |-> <<"/", "e", "/", "b", "i", "n", "/", "p", "y", "t", "h", "o", "n", "3", ".", "7">>, opt |-> <<" ", "-", "O">>, rest |-> <<"\n", "x", "\n">>]
    /\ tool.res[1] = <<"#", "!", "/", "u", "s", "r", "/", "b", "i", "n", "/", "e", "n", "v", " ", "p", "y", "t", "h", "o", "n", "3", ".", "7", " ", "-", "O", "\n", "x", "\n">>

\* C17: the data is returned unchanged when the shebang executable is not
\* the environment root or a path below it (by path components), when the
\* data has no shebang at its start, and when the prefix occurs more than
\* once in the data.
C17_ShebangUnchanged ==
    ( /\ Called("rewrite_shebang")
      /\ \/ HasShebang(tool.arg) /\ ~RootedUnder(tool.arg.exe, prefix)
         \/ tool.arg.pre = <<>>
         \/ count(data_of(tool.arg), prefix) > 1 )
        => tool.res[1] = data_of(tool.arg)

(***************************************************************************)
(* SpecContent: one pack() call followed entry by entry: discovery, the    *)
(* filters in order, the Packer, one Packer.add per manifest entry, then   *)
(* Packer.finish.  The archive is a tar archive (the default format).      *)
(***************************************************************************)
\* The environments packed: a venv, a venv whose interpreter is /bin/python,
\* a virtualenv, and a directory holding both origin files; each with up to
\* MaxOptional of the optional entries.  MaxOptional bounds the entries an
\* environment holds besides those discovery reads.
MaxOptional == 1

\* Runs of at most MaxOptional neighbouring optional entries
OptionalRuns ==
    LET N == Len(OptionalNodes([cfg |-> None, origtxt |-> None]))
    IN  {a .. b : a \in 1 .. N, b \in 0 .. N} \cap {o \in SUBSET (1 .. N) : Cardinality(o) <= MaxOptional}

PackedFacts ==
    { f \in [given : {TRUE}, path : {<<"/", "e">>}, exists : {TRUE},
             cfg : Optional({<<"h", "o", "m", "e", " ", "=", " ", "/", "u", "/", "b", "i", "n", "\n">>, <<"h", "o", "m", "e", " ", "=", " ", "/", "b", "i", "n", "\n">>}), pythons : {1},
             origtxt : Optional(OrigPrefixTexts), pth : {None},
             opt : OptionalRuns] :
        f.cfg.some \/ f.origtxt.some }

\* The patterns of the filters argument followed here
ContentPatterns == {<<"*">>, <<"l", "i", "b", "/", "*">>}
ContentFilters ==
    [kind : {"exclude", "include"}, pattern : ContentPatterns]
        \cup [kind : {"foo"}, pattern : {<<"*">>}]

InitContent ==
    /\ \E f \in PackedFacts, python_prefix \in {None, Some(AbsolutePrefix)} :
            site = [kind |-> "site", facts |-> f, python_prefix |-> python_prefix]
    /\ cenv = [kind |-> "none"]
    /\ packer = [kind |-> "none"]
    /\ members = <<>>
    /\ step = "load"
    /\ EnvIdle
    /\ PackIdle
    /\ ToolIdle

\* pack(): env = Env(prefix)
Discover ==
    /\ step = "load"
    /\ \E r \in {load_environment(site.facts)} :
           IF r.raised
           THEN /\ step' = "raised"
                /\ UNCHANGED cenv
           ELSE /\ cenv' = [kind |-> "env", context |-> r.value.context,
                            files |-> r.value.files, excluded |-> <<>>, applied |-> <<>>]
                /\ step' = "filters"
    /\ UNCHANGED <<site, packer, members, envVars, packVars, toolVars>>

\* pack(): one turn of "for kind, pattern in filters"
ApplyFilter ==
    /\ step = "filters"
    /\ Len(cenv.applied) < MaxFilters
    /\ \E flt \in ContentFilters :
        IF flt.kind = "exclude"
        THEN /\ cenv' = [exclude_files(cenv, flt.pattern) EXCEPT !.applied = Append(@, flt)]
             /\ UNCHANGED step
        ELSE IF flt.kind = "include"
        THEN /\ cenv' = [include_files(cenv, flt.pattern) EXCEPT !.applied = Append(@, flt)]
             /\ UNCHANGED step
        ELSE /\ step' = "raised"
             /\ UNCHANGED cenv
    /\ UNCHANGED <<site, packer, members, envVars, packVars, toolVars>>

\* Env.pack: packer = Packer(self._context, arc, python_prefix), after the
\* last filter
MakePacker ==
    /\ step = "filters"
    /\ LET r == check_python_prefix(site.python_prefix, cenv.context)
       IN  IF r.raised
           THEN /\ step' = "raised"
                /\ UNCHANGED packer
           ELSE /\ packer' = [kind |-> "packer", python_prefix |-> r.value.python_prefix,
                              rewrites |-> r.value.rewrites]
                /\ step' = "add"
    /\ UNCHANGED <<site, cenv, members, envVars, packVars, toolVars>>

\* Env.pack adding the entries from the end of self.files
AddFile_from_end ==
    /\ step = "add"
    /\ Len(members) < Len(cenv.files)
    /\ \/ /\ members' = Append(members,
                    Packer_add(packer, cenv.context, tree_of(site.facts),
                               cenv.files[Len(cenv.files) - Len(members)]))
          /\ UNCHANGED step
       \/ /\ step' = "add_failed"
          /\ UNCHANGED members
    /\ UNCHANGED <<site, cenv, packer, envVars, packVars, toolVars>>

\* Env.pack: one turn of "for f in self.files: packer.add(f)"; packer.add
\* returns, or raises (the source cannot be read, the archive cannot be
\* written) and the exception leaves the loop
AddFile ==
    /\ step = "add"
    /\ Len(members) < Len(cenv.files)
    /\ \/ /\ members' = Append(members,
                    Packer_add(packer, cenv.context, tree_of(site.facts),
                               cenv.files[Len(members) + 1]))
          /\ UNCHANGED step
       \/ /\ step' = "add_failed"
          /\ UNCHANGED members
    /\ UNCHANGED <<site, cenv, packer, envVars, packVars, toolVars>>

\* Env.pack: packer.finish(); it returns, or one of its archive calls
\* raises after the ones before it were made
Finish ==
    /\ step = "add"
    /\ Len(members) = Len(cenv.files)
    /\ \E fin \in {Packer_finish(packer, cenv.context, site.facts)} :
        \/ /\ members' = members \o fin
           /\ step' = "done"
        \/ \E n \in 0 .. Len(fin) - 1 :
               /\ members' = members \o SubSeq(fin, 1, n)
               /\ step' = "finish_failed"
    /\ UNCHANGED <<site, cenv, packer, envVars, packVars, toolVars>>

NextContent ==
    \/ Discover
    \/ ApplyFilter
    \/ MakePacker
    \/ AddFile
    \/ Finish

SpecContent == InitContent /\ [][NextContent]_vars

(***************************************************************************)
(* Claims on the content of the archive (checked under SpecContent).       *)
(***************************************************************************)
contains(s, sub) == count(s, sub) > 0
Targets(files) == {x.target : x \in Range(files)}
Names(ms) == {m.name : m \in Range(ms)}

\* The origin marker of the layout, by its path below the prefix
OriginMarker(context) ==
    IF context.kind = "virtualenv" THEN join(context.py_lib, s_orig_prefix_txt)
    ELSE s_pyvenv_cfg

ActivationScripts ==
    { join(BIN_DIR, s_activate), join(BIN_DIR, s_activate \o <<".", "c", "s", "h">>),
      join(BIN_DIR, s_activate \o <<".", "f", "i", "s", "h">>) }

\* What the walk of the environment found
Walked(f, context) ==
    Range(walked(tree_of(f), context.prefix))

\* The manifest as load_environment returned it
Loaded == cenv.kind = "env" /\ cenv.applied = <<>>

\* C14: the manifest returned by load_environment holds no activation
\* script, not the origin marker of the layout, and no entry ending in "~"
\* or ".DS_STORE"; every other entry the walk found is in it.
C14_ManifestRemoval ==
    Loaded =>
        Targets(cenv.files) =
            { q \in Walked(site.facts, cenv.context) :
                /\ q \notin ActivationScripts
                /\ q # OriginMarker(cenv.context)
                /\ ~endswith(q, <<"~">>)
                /\ ~endswith(q, <<".", "D", "S", "_", "S", "T", "O", "R", "E">>) }

RECURSIVE ActiveAfter(_, _, _, _)
\* The active targets after the filters fl[k..] are applied in order to the
\* active targets act and the excluded targets exl
ActiveAfter(fl, k, act, exl) ==
    IF k > Len(fl) THEN act
    ELSE IF fl[k].kind = "exclude"
    THEN ActiveAfter(fl, k + 1, {t \in act : ~fnmatch(t, fl[k].pattern)},
                     exl \cup {t \in act : fnmatch(t, fl[k].pattern)})
    ELSE ActiveAfter(fl, k + 1, act \cup {t \in exl : fnmatch(t, fl[k].pattern)},
                     {t \in exl : ~fnmatch(t, fl[k].pattern)})

\* The targets of the active entries of Env(prefix) with the filters applied
ExpectedActive ==
    ActiveAfter(cenv.applied, 1, Targets(load_environment(site.facts).value.files), {})

Packed == step = "done"

\* C15, as stated: every name in the archive that is not the target of an
\* active entry of the filtered Env contains "activate".
C15_ExtrasAreActivationHelpers ==
    Packed =>
        \A m \in Range(members) :
            m.name \notin ExpectedActive => contains(m.name, s_activate)

\* C15, amended: in a tar archive the names are the targets of the active
\* entries of the filtered Env and the entries finish adds, and each name
\* that is not an active target contains "activate" or is the origin file.
C15_FilteredManifestAndArchive ==
    Packed =>
        /\ ExpectedActive \subseteq Names(members)
        /\ \A m \in Range(members) :
                m.name \notin ExpectedActive =>
                    contains(m.name, s_activate) \/ m.name = OriginMarker(cenv.context)

\* A pack whose filters left some entries active and some excluded, the
\* origin file among the excluded ones, so that finish alone put it in the
\* archive.
C15_Witness ==
    /\ Packed
    /\ cenv.files # <<>>
    /\ cenv.excluded # <<>>
    /\ OriginMarker(cenv.context) \notin ExpectedActive
    /\ OriginMarker(cenv.context) \in Names(members)
    /\ \E m \in Range(members) : contains(m.name, s_activate)

\* The position in members of the entries Packer.add wrote
Added == 1 .. (IF Len(members) <= Len(cenv.files) THEN Len(members) ELSE Len(cenv.files))
source_node(k) == node_at(tree_of(site.facts), cenv.files[k].target)

\* The new target of a link whose target starts with orig
Relocated(link, orig, new) == new \o SubSeq(link, Len(orig) + 1, Len(link))

\* A link to the interpreter of the original installation, in its bin
\* directory
ToOriginalInterpreter(link, context) ==
    /\ dirname(link) = join(context.orig_prefix, BIN_DIR)
    /\ startswith(basename(link), s_python)

\* C18: with python_prefix given, an entry whose source is a link with a
\* target under a rule's match prefix is stored as a link to that target
\* with the match prefix replaced; in a venv a link to the original
\* interpreter is stored as <python_prefix>/bin/python<X.Y>, in a virtualenv
\* a relinked target lies under python_prefix; a link that matches no rule
\* keeps its target.
C18_RelocatedLinks ==
    (packer.kind = "packer" /\ packer.python_prefix.some) =>
        \A k \in Added :
            LET n == source_node(k)
                r == first_rule(packer.rewrites, n.link, 1)
                pp == packer.python_prefix.s
            IN  islink(n) =>
                    /\ members[k].type = "link"
                    /\ r > 0 => members[k].linkname =
                                    Relocated(n.link, packer.rewrites[r][1], packer.rewrites[r][2])
                    /\ r = 0 => members[k].linkname = n.link
                    /\ (cenv.context.kind = "venv" /\ ToOriginalInterpreter(n.link, cenv.context))
                            => members[k].linkname = join3(pp, BIN_DIR, python_ver)
                    /\ (cenv.context.kind = "virtualenv" /\ r > 0)
                            => startswith(members[k].linkname, pp \o <<"/">>)

\* The entry finish added for the origin file
origin_entry == members[Len(members)]
origin_text ==
    IF cenv.context.kind = "venv" THEN site.facts.cfg.s ELSE site.facts.origtxt.s

\* C19: the origin entry finish adds is the unmodified file when
\* python_prefix is not given; when it is given, for a venv it is pyvenv.cfg
\* with each occurrence of orig_prefix replaced by the normalised
\* python_prefix, so that it contains <python_prefix>/bin, and for a
\* virtualenv it is exactly the normalised python_prefix.
C19_OriginEntry ==
    Packed =>
        /\ origin_entry.name = OriginMarker(cenv.context)
        /\ origin_entry.type = "file"
        /\ ~site.python_prefix.some => origin_entry.data = origin_text
        /\ (site.python_prefix.some /\ cenv.context.kind = "venv") =>
                /\ origin_entry.data =
                        replace(origin_text, cenv.context.orig_prefix, rstrip_sep(site.python_prefix.s))
                /\ contains(origin_entry.data, join(rstrip_sep(site.python_prefix.s), BIN_DIR))
        /\ (site.python_prefix.some /\ cenv.context.kind = "virtualenv") =>
                origin_entry.data = rstrip_sep(site.python_prefix.s)

\* C20: every target handed to the archive, the entries of finish
\* included, is a relative path: it does not start with "/" and its first
\* segment is not "..".
C20_RelativeTargets ==
    \A m \in Range(members) :
        /\ m.name # <<>>
        /\ m.name[1] # "/"
        /\ split(m.name, "/")[1] # <<".", ".">>

\* A finished pack of a virtualenv after filters, whose archive holds a
\* nested target of the manifest and the origin file finish added below
\* py_lib.
C20_Witness ==
    /\ Packed
    /\ cenv.applied # <<>>
    /\ cenv.context.kind = "virtualenv"
    /\ \E k \in 1 .. Len(cenv.files) : count(members[k].name, <<"/">>) >= 2
    /\ count(origin_entry.name, <<"/">>) >= 2

(***************************************************************************)
(* Claims on the exceptions of check_prefix (checked under SpecTools).     *)
(***************************************************************************)
\* pyvenv.cfg is absent or the loop over its lines does not come to a home
\* key
NoHomeKey(f) == ~f.cfg.some \/ find_home(lines_of(f.cfg.s)).raised

\* C25: for an existing path check_prefix returns a descriptor or raises
\* VenvPackException and no other exception; when pyvenv.cfg is absent or
\* yields no home key, also because of a line before it that is not of the
\* form key=value, the virtualenv check decides: its descriptor is returned,
\* or VenvPackException is raised when it fails too.
C25_OnlyVenvPackException ==
    (Called("check_prefix") /\ tool.arg.given /\ tool.arg.exists) =>
        LET f == tool.arg
            res == tool.res
        IN  /\ res.raised => res.exc.type = "VenvPackException"
            /\ NoHomeKey(f) =>
                    IF VirtualenvCheckSucceeds(f)
                    THEN ~res.raised /\ res.value.kind = "virtualenv"
                    ELSE res.raised /\ res.exc.type = "VenvPackException"

(***************************************************************************)
(* Further claims on the content of the archive (checked under             *)
(* SpecContent).                                                           *)
(***************************************************************************)
\* The positions in members of the entries for the origin file
OriginEntries == {k \in 1 .. Len(members) : members[k].name = OriginMarker(cenv.context)}

\* C26: the archive pack writes holds the origin file exactly once, added by
\* finish, whatever the filters were; with python_prefix given there is no
\* entry for it that still holds the original text.
C26_OriginOnce ==
    Packed =>
        /\ OriginEntries = {Len(members)}
        /\ site.python_prefix.some =>
                \A k \in OriginEntries :
                    k <= Len(cenv.files) => members[k].data # origin_text

(***************************************************************************)
(* Claims on Packer.add (checked under SpecTools).                         *)
(***************************************************************************)
\* The data with its shebang line turned into '#!/usr/bin/env', the name of
\* the executable and the options
EnvShebang(a) == usr_bin_env \o basename(a.exe) \o a.opt \o a.rest

AddedFile == Called("Packer.add") /\ tool.arg.type = "file"

\* C21, as stated: the bytes stored for a regular file are the source bytes,
\* or differ from them only in the shebang line, which reads
\* '#!/usr/bin/env <basename><options>', and then the root path of the
\* environment occurs nowhere in the stored bytes.
C21_StoredBytes ==
    AddedFile =>
        \/ tool.res.data = data_of(tool.arg.a)
        \/ /\ HasShebang(tool.arg.a)
           /\ tool.res.data = EnvShebang(tool.arg.a)
           /\ count(tool.res.data, tool.arg.pfx) = 0

\* C21, amended: the bytes stored for a regular file are the source bytes,
\* or differ from them only in the shebang line, which reads
\* '#!/usr/bin/env <basename><options>', and then the root path of the
\* environment does not occur in the stored bytes after the leading
\* '#!/usr/bin/env '.
C21_StoredBytesAfterEnv ==
    AddedFile =>
        \/ tool.res.data = data_of(tool.arg.a)
        \/ /\ HasShebang(tool.arg.a)
           /\ tool.res.data = EnvShebang(tool.arg.a)
           /\ count(SubSeq(tool.res.data, Len(usr_bin_env) + 1, Len(tool.res.data)),
                    tool.arg.pfx) = 0

\* A script below bin of the environment at /u whose shebang named the
\* interpreter of the environment was stored with the new shebang line and
\* its other lines.
C21_Witness ==
    /\ AddedFile
    /\ tool.arg.pfx = <<"/", "u">>
    /\ tool.arg.a.rest # <<>>
    /\ tool.res.data # data_of(tool.arg.a)
    /\ tool.res.data = EnvShebang(tool.arg.a)

\* The target lies inside the bin directory: its first path component is
\* BIN_DIR and it has further components
InsideBin(target) ==
    Len(split(target, "/")) >= 2 /\ split(target, "/")[1] = BIN_DIR

\* The call took the branch that relocates links
RelocationBranch(a) == a.relocate /\ a.type \in {"link", "dirlink"}
RuleApplies(a) == \E k \in 1 .. Len(add_packer(a).rewrites) :
                      startswith(a.link, add_packer(a).rewrites[k][1])

\* C23: Packer.add hands the entry's content to add_bytes exactly when the
\* entry is not taken by the relocation branch, its target lies inside the
\* bin directory and its source is a regular file; every other entry that
\* is not relocated is added by its source path, content and link target
\* unchanged.
C23_AddBranches ==
    Called("Packer.add") =>
        LET a == tool.arg
            bytes == tool.res.via = "add_bytes"
        IN  /\ bytes <=> (~RelocationBranch(a) /\ InsideBin(a.target) /\ a.type = "file")
            /\ (~bytes /\ ~(RelocationBranch(a) /\ RuleApplies(a))) =>
                    /\ tool.res.via = "add"
                    /\ tool.res.linkname = a.link
                    /\ a.type = "file" => tool.res.data = data_of(a.a)

(***************************************************************************)
(* Claims on the order of the archive calls (checked under SpecContent).   *)
(***************************************************************************)
\* The names finish adds, in its order: the helper scripts, then the origin
\* file
FinishNames ==
    [k \in 1 .. Len(ScriptNames) |-> join(BIN_DIR, ScriptNames[k])]
        \o <<OriginMarker(cenv.context)>>

\* The entries of members are the first entries of env.files, in order
AddedInOrder ==
    \A k \in Added : members[k].name = cenv.files[k].target

\* C24: Env.pack adds the active entries in the order of env.files, each
\* once, and runs finish (the helper scripts, then the origin file) only
\* after all of them; when adding an entry fails, finish is not run and no
\* later entry is added.
C24_AddThenFinish ==
    /\ [](packer.kind = "packer" =>
            /\ AddedInOrder
            /\ step = "add" => Len(members) <= Len(cenv.files)
            /\ step = "add_failed" => Len(members) < Len(cenv.files)
            /\ step = "done" =>
                    [k \in 1 .. Len(members) - Len(cenv.files) |->
                        members[Len(cenv.files) + k].name] = FinishNames)
    /\ [][step = "add_failed" => (members' = members /\ step' = "add_failed")]_vars

\* All entries of a manifest of several entries were added, after filters,
\* and finish has run.
C24_Witness ==
    /\ Packed
    /\ cenv.applied # <<>>
    /\ Len(cenv.files) >= 3
    /\ Len(members) = Len(cenv.files) + Len(FinishNames)

\* A call of ZipArchive.add or ZipArchive.add_link that has returned, what
\* it stored, and the link target the entry of a link is to hold: the one
\* add_link is given, and for add the one the source link has on disk
ZipCalled == Called("ZipArchive.add") \/ Called("ZipArchive.add_link")
ZipStored == {tool.res.value[k] : k \in 1 .. Len(tool.res.value)}
LinkTargetString ==
    IF tool.fn = "ZipArchive.add_link" THEN tool.arg.sourcelink ELSE tool.arg.src.link

\* The names and contents a link resolves to: the file it names, or the
\* files and the empty directories of the directory it names
ResolvedContent(src, target) ==
    LET nodes == {src.beneath[k] : k \in 1 .. Len(src.beneath)}
        empty(d) == \A n \in nodes : dirname(n.path) # d.path
    IN  IF src.to = "file" THEN {<<target, src.data>>}
        ELSE {<<join(target, n.path), n.data>> : n \in {m \in nodes : m.type = "file"}}
             \cup {<<join(target, n.path) \o <<"/">>, <<>>>> :
                        n \in {m \in nodes : m.type = "dir" /\ empty(m)}}
             \cup (IF nodes = {} THEN {<<target \o <<"/">>, <<>>>>} ELSE {})

\* C22: with zip_symlinks False, ZipArchive.add and ZipArchive.add_link on a
\* source that is a link store what the link resolves to (its file, or the
\* files and empty directories below its directory) and no entry of the
\* link itself; with zip_symlinks True both store one entry whose content is
\* the link target string and whose mode is the mode of the link.
C22_ZipSymlinks ==
    (ZipCalled /\ tool.arg.src.type = "link") =>
        IF tool.arg.zip_symlinks
        THEN /\ ~tool.res.raised
             /\ Len(tool.res.value) = 1
             /\ tool.res.value[1].name = tool.arg.target
             /\ tool.res.value[1].data = LinkTargetString
             /\ tool.res.value[1].mode = st_mode("link")
        ELSE tool.arg.src.to # "none" =>
             /\ ~tool.res.raised
             /\ {<<e.name, e.data>> : e \in ZipStored} = ResolvedContent(tool.arg.src, tool.arg.target)
             /\ Len(tool.res.value) = Cardinality(ZipStored)
             /\ \A e \in ZipStored : e.mode # st_mode("link") /\ e.data # LinkTargetString

C22_Witness ==
    /\ Called("ZipArchive.add_link")
    /\ ~tool.arg.zip_symlinks
    /\ tool.arg.src.to = "dir"
    /\ Len(tool.arg.src.beneath) = 3
    /\ Len(tool.res.value) = 2

====
